---- MODULE Spec2Model ----
(***************************************************************************)
(* Model of the MT5 terminal connection pool (mt5_connection_pool.py),     *)
(* the indicator request path (routes/indicators.py, indicator_reader.py)  *)
(* and the background health monitor (health_monitor.py).                  *)
(*                                                                         *)
(* Every thread of the service is a record th[t] holding its position (pc) *)
(* and its local variables.  A step of a thread is one action below; a     *)
(* critical section "with self.lock:" is two steps (take the lock, then    *)
(* run the body and release), so that lock-free reads and writes of other  *)
(* threads interleave with it exactly where Python lets them.              *)
(***************************************************************************)
EXTENDS Integers, Sequences, FiniteSets, TLC

VARIABLES MT5_AVAILABLE, connection_pool, terminals, connections,
          symbol_to_connection,
          conn, term, th, completed, ops, health_monitor, mon,
          rates, fractals, call

vars == <<MT5_AVAILABLE, connection_pool, terminals, connections,
          symbol_to_connection,
          conn, term, th, completed, ops, health_monitor, mon,
          rates, fractals, call>>

\* the module globals and the pool's own fields, written at start-up only
pool == <<MT5_AVAILABLE, connection_pool, terminals, connections,
          symbol_to_connection>>

\* the bar series, the fractals and the last call of the indicator functions
indicators == <<rates, fractals, call>>

(***************************************************************************)
(* Bounds                                                                  *)
(***************************************************************************)
MaxTerminals == 2
\* requests and monitor ticks begun
MaxOps == 2
\* monitor ticks begun
MaxTicks == 1
\* start_health_monitor / stop_health_monitor calls made by the main thread
MaxCalls == 3

(***************************************************************************)
(* Universe: the main thread, the request workers and the monitor threads  *)
(***************************************************************************)
Ids == {"MT5_01", "MT5_02"}
Symbols == {"XAUUSD", "EURUSD"}
Main == 0
Workers == {1, 2}
Monitors == {100 + i : i \in 1..MaxCalls}
Threads == {Main} \cup Workers \cup Monitors
NoThread == -1
None == "None"
\* the None a lookup returns instead of a connection
NoConnection == 0
\* rates is None: the terminal returned no series
NoRates == [is_none |-> TRUE, bars |-> <<>>]
\* no indicator function has been called
NoCall == [fn |-> "none", args |-> <<>>, result |-> <<>>]
\* a structure that still holds a point
empty_fractals_with_point ==
    [peaks |-> <<[time |-> 0, value |-> 0, bar_index |-> 0]>>, bottoms |-> <<>>]

\* _empty_fractals()
empty_fractals == [peaks |-> <<>>, bottoms |-> <<>>]
\* no request is computing indicators
IndicatorsIdle == rates = NoRates /\ fractals = empty_fractals /\ call = NoCall
\* the messages connect() records, and the messages check_connection() records
ConnectError == "connect failed"
CheckError == "connection lost"

\* tests/test_connection_pool.py setUp: the two-terminal configuration
TestConfig ==
    <<[id |-> "MT5_01", symbol |-> "XAUUSD"], [id |-> "MT5_02", symbol |-> "EURUSD"]>>

\* Every terminal list of 1..n entries over the ids and symbols.
RECURSIVE ListsUpTo(_, _)
ListsUpTo(S, n) ==
    IF n = 0 THEN {<<>>}
    ELSE LET shorter == ListsUpTo(S, n - 1)
         IN  shorter \cup {Append(l, x) : l \in {k \in shorter : Len(k) = n - 1}, x \in S}

TerminalConfigs(n) ==
    {l \in ListsUpTo([id : Ids, symbol : Symbols], n) : Len(l) >= 1}

(***************************************************************************)
(* MT5Connection.__init__                                                  *)
(***************************************************************************)
MT5Connection(cfg) ==
    [id |-> cfg.id, symbol |-> cfg.symbol,
     connected |-> FALSE, last_check |-> FALSE, error_message |-> None,
     lock |-> NoThread, reconnect_count |-> 0, last_error |-> None]

(***************************************************************************)
(* MT5ConnectionPool._load_config: the two dicts after the loop.  A        *)
(* connection object is the index of its entry in the terminal list; a     *)
(* later entry with the same key overwrites the earlier one.               *)
(***************************************************************************)
LastIndex(ks, k) ==
    CHOOSE i \in 1..Len(ks) : ks[i] = k /\ \A j \in (i+1)..Len(ks) : ks[j] # k

LoadConnections(l) ==
    LET ks == [i \in 1..Len(l) |-> l[i].id]
    IN  [k \in {ks[i] : i \in 1..Len(l)} |-> LastIndex(ks, k)]

LoadSymbolMap(l) ==
    LET ks == [i \in 1..Len(l) |-> l[i].symbol]
    IN  [k \in {ks[i] : i \in 1..Len(l)} |-> LastIndex(ks, k)]

\* dict iteration order is the order in which each key was first inserted.
RECURSIVE KeyOrder(_, _)
KeyOrder(ks, i) ==
    IF i > Len(ks) THEN <<>>
    ELSE IF \E j \in 1..(i-1) : ks[j] = ks[i]
         THEN KeyOrder(ks, i + 1)
         ELSE <<ks[i]>> \o KeyOrder(ks, i + 1)

\* self.connections.values() / .items(), in dict order
ConnectionsValues ==
    LET ks == KeyOrder([i \in 1..Len(terminals) |-> terminals[i].id], 1)
    IN  [i \in 1..Len(ks) |-> connections[ks[i]]]

\* self.symbol_to_connection.items(), in dict order
SymbolItems ==
    LET ks == KeyOrder([i \in 1..Len(terminals) |-> terminals[i].symbol], 1)
    IN  [i \in 1..Len(ks) |-> symbol_to_connection[ks[i]]]

Conns == 1..Len(terminals)

(***************************************************************************)
(* Thread records                                                          *)
(***************************************************************************)
NoSummary == [status |-> "none", total_terminals |-> 0, connected_terminals |-> 0]

IdleThread ==
    [op |-> "idle", pc |-> "idle", ret |-> "idle", arg |-> None, tf_ok |-> TRUE,
     cur |-> 0, todo |-> <<>>, tmp |-> 0, res |-> FALSE, inrec |-> FALSE,
     saw |-> "none", nrec |-> 0, nfetch |-> 0, before |-> 0, out |-> "none",
     stat |-> <<>>, summary |-> NoSummary, results |-> <<>>,
     successful |-> 0, failed |-> 0, scan |-> <<>>, bars |-> 0]

(***************************************************************************)
(* The external terminal (tests/mock_mt5_server.py MockMT5): one session   *)
(* per connection, "closed", "initialized" or "logged_in".                 *)
(***************************************************************************)
TermAfterInitialize(s) == IF s = "closed" THEN "initialized" ELSE s

\* Threads that are inside a call into the terminal of connection c.
TerminalPcs == {"connect_locked", "disconnect_locked", "check_locked", "fetch_locked"}
InTerminal(t, c) == th[t].cur = c /\ th[t].pc \in TerminalPcs

(***************************************************************************)
(* threading.Lock                                                          *)
(***************************************************************************)
\* a lock that never makes anyone wait
LockFree_ignored(c) == TRUE

LockFree(c) == conn[c].lock = NoThread

\* a with-block that is entered without taking the lock
Acquire_nothing(t, c) == conn

Acquire(t, c) == [conn EXCEPT ![c].lock = t]

NewMonitor == [stop_event |-> FALSE, running |-> FALSE]

\* the first HealthMonitor object that start_health_monitor constructs
FirstMonitor == CHOOSE m \in Monitors : \A n \in Monitors : m <= n

\* The pool as MT5ConnectionPool.__init__ leaves it for terminal list l, with
\* the main thread at pc main and the monitor threads in ms started.
InitWith(l, main, ms) ==
    /\ connection_pool = "MT5ConnectionPool"
    /\ terminals = l
    /\ connections = LoadConnections(l)
    /\ symbol_to_connection = LoadSymbolMap(l)
    /\ conn = [c \in 1..Len(l) |-> MT5Connection(l[c])]
    /\ term = [c \in 1..Len(l) |-> "closed"]
    /\ th = [t \in Threads |->
                IF t = Main THEN [IdleThread EXCEPT !.pc = main]
                ELSE IF t \in ms THEN [IdleThread EXCEPT !.pc = "run"]
                ELSE IF t \in Monitors THEN [IdleThread EXCEPT !.pc = "unstarted"]
                ELSE IdleThread]
    /\ completed = [c \in 1..Len(l) |-> 0]
    /\ ops = [started |-> 0, ticks |-> 0, starts |-> Cardinality(ms), stops |-> 0]
    /\ IndicatorsIdle
    /\ health_monitor = IF ms = {} THEN NoThread ELSE CHOOSE m \in ms : TRUE
    /\ mon = [m \in Monitors |-> NewMonitor]

\* A pool over the first terminal of the test configuration, serving requests
\* with its health monitor started.
Init ==
    /\ MT5_AVAILABLE \in BOOLEAN
    /\ InitWith(<<TestConfig[1]>>, "serving", {101})

\* create_app on the same pool: it is constructed, connect_all and
\* start_health_monitor are still to run.
InitLifecycle ==
    /\ MT5_AVAILABLE \in BOOLEAN
    /\ InitWith(<<TestConfig[1]>>, "init_connection_pool", {})

\* A pool constructed from any terminal list, used by one caller.
InitSequential ==
    /\ MT5_AVAILABLE \in BOOLEAN
    /\ \E l \in TerminalConfigs(MaxTerminals) : InitWith(l, "serving", {})

(***************************************************************************)
(* Calls and returns inside one thread                                     *)
(***************************************************************************)
Goto(t, label) == [th[t] EXCEPT !.pc = label]

\* connection.reconnect() called on c, continuing at ret when it returns
CallReconnect(r, c, ret) ==
    [r EXCEPT !.cur = c, !.pc = "disconnect", !.ret = ret, !.inrec = TRUE,
              !.nrec = @ + 1]

\* connect() returns result: back to the caller of connect() / reconnect()
ReturnFromConnect(t, result) ==
    [th[t] EXCEPT !.pc = th[t].ret, !.res = result, !.inrec = FALSE]

CountCompleted(t) ==
    IF th[t].inrec THEN [completed EXCEPT ![th[t].cur] = @ + 1] ELSE completed

\* the outcomes in which a call into the terminal raises
Raises == {"initialize_raised", "login_raised", "shutdown_raised", "raised"}

\* a handler that catches nothing
Caught_never(o) == FALSE

\* "except Exception": the handler around the terminal calls of connect,
\* disconnect and check_connection catches what outcome o raised
Caught(o) == TRUE

\* the exception of outcome o leaves the operation
Escapes(o) == o \in Raises /\ ~Caught(o)

\* the thread unwinds with the exception
Propagate(t) == [th[t] EXCEPT !.pc = "exception", !.inrec = FALSE]

(***************************************************************************)
(* MT5Connection.connect                                                   *)
(***************************************************************************)
\* "login_raised" stands for any terminal call after a successful initialize()
\* raising: login(), last_error() or the shutdown() of the failed-login path.
ConnectOutcomes ==
    {"ok", "initialize_failed", "initialize_raised", "login_failed", "login_raised"}

\* the fields connect() leaves behind when MetaTrader5 cannot be imported
connect_unavailable(cn) ==
    [cn EXCEPT !.error_message = ConnectError,
               !.connected = FALSE, !.last_check = TRUE]

\* the fields connect() leaves behind inside the lock, per terminal behaviour
connect_fields(cn, o) ==
    CASE o = "ok" ->
           [cn EXCEPT !.connected = TRUE, !.error_message = None, !.last_check = TRUE]
      [] o = "initialize_failed" ->
           [cn EXCEPT !.error_message = ConnectError,
                      !.connected = FALSE, !.last_check = TRUE]
      [] o = "login_failed" ->
           [cn EXCEPT !.error_message = ConnectError,
                      !.connected = FALSE, !.last_check = TRUE]
      [] OTHER ->
           [cn EXCEPT !.error_message = ConnectError,
                      !.last_error = "set", !.connected = FALSE, !.last_check = TRUE]

\* the terminal session connect() leaves behind
connect_session(s, o) ==
    CASE o = "ok" -> "logged_in"
      [] o = "initialize_failed" -> s
      [] o = "initialize_raised" -> s
      [] o = "login_failed" -> "closed"
      [] OTHER -> TermAfterInitialize(s)

\* connect_all: connect() has run once on every connection of the id map,
\* with outcome os[c] on connection c
AfterConnectAll(l, os) ==
    [c \in 1..Len(l) |->
        IF c \notin {LoadConnections(l)[k] : k \in DOMAIN LoadConnections(l)}
        THEN MT5Connection(l[c])
        ELSE IF MT5_AVAILABLE
        THEN connect_fields(MT5Connection(l[c]), os[c])
        ELSE connect_unavailable(MT5Connection(l[c]))]

SessionsAfterConnectAll(l, os) ==
    [c \in 1..Len(l) |->
        IF MT5_AVAILABLE /\ c \in {LoadConnections(l)[k] : k \in DOMAIN LoadConnections(l)}
        THEN connect_session("closed", os[c])
        ELSE "closed"]

\* create_app on a pool of any terminal list: connect_all has run and the
\* health monitor has just been started; no request is in progress.
InitMonitor ==
    /\ MT5_AVAILABLE \in BOOLEAN
    /\ \E l \in TerminalConfigs(MaxTerminals) :
         \E os \in [1..Len(l) -> ConnectOutcomes] :
            /\ connection_pool = "MT5ConnectionPool"
            /\ terminals = l
            /\ connections = LoadConnections(l)
            /\ symbol_to_connection = LoadSymbolMap(l)
            /\ conn = AfterConnectAll(l, os)
            /\ term = SessionsAfterConnectAll(l, os)
    /\ th = [t \in Threads |->
                IF t = Main THEN [IdleThread EXCEPT !.pc = "serving"]
                ELSE IF t = FirstMonitor THEN [IdleThread EXCEPT !.pc = "run"]
                ELSE IF t \in Monitors THEN [IdleThread EXCEPT !.pc = "unstarted"]
                ELSE IdleThread]
    /\ completed = [c \in 1..Len(terminals) |-> 0]
    /\ ops = [started |-> 0, ticks |-> 0, starts |-> 1, stops |-> 0]
    /\ IndicatorsIdle
    /\ health_monitor = FirstMonitor
    /\ mon = [m \in Monitors |-> NewMonitor]

connect_enter(t) ==
    LET c == th[t].cur IN
    /\ th[t].pc = "connect"
    /\ IF ~MT5_AVAILABLE
       THEN /\ conn' = [conn EXCEPT ![c] = connect_unavailable(@)]
            /\ th' = [th EXCEPT ![t] = ReturnFromConnect(t, FALSE)]
            /\ completed' = CountCompleted(t)
       ELSE /\ LockFree(c)
            /\ conn' = Acquire(t, c)
            /\ th' = [th EXCEPT ![t] = Goto(t, "connect_locked")]
            /\ UNCHANGED completed
    /\ UNCHANGED <<pool, indicators, term, ops, health_monitor, mon>>

connect_body(t) ==
    LET c == th[t].cur IN
    /\ th[t].pc = "connect_locked"
    /\ \E o \in ConnectOutcomes :
        /\ conn' = [conn EXCEPT ![c] =
                       [IF Escapes(o) THEN @ ELSE connect_fields(@, o)
                           EXCEPT !.lock = NoThread]]
        /\ term' = [term EXCEPT ![c] = connect_session(@, o)]
        /\ th' = [th EXCEPT ![t] =
                     IF Escapes(o) THEN Propagate(t) ELSE ReturnFromConnect(t, o = "ok")]
    /\ completed' = CountCompleted(t)
    /\ UNCHANGED <<pool, indicators, ops, health_monitor, mon>>

(***************************************************************************)
(* MT5Connection.disconnect                                                *)
(***************************************************************************)
AfterDisconnect(t) ==
    IF th[t].inrec THEN Goto(t, "reconnect_read") ELSE Goto(t, th[t].ret)

disconnect_fields(cn, o) ==
    IF o = "ok" THEN [cn EXCEPT !.connected = FALSE] ELSE cn

disconnect_session(s, o) == IF o = "ok" THEN "closed" ELSE s

disconnect_enter(t) ==
    LET c == th[t].cur IN
    /\ th[t].pc = "disconnect"
    /\ IF ~MT5_AVAILABLE
       THEN /\ th' = [th EXCEPT ![t] = AfterDisconnect(t)]
            /\ UNCHANGED conn
       ELSE /\ LockFree(c)
            /\ conn' = Acquire(t, c)
            /\ th' = [th EXCEPT ![t] = Goto(t, "disconnect_locked")]
    /\ UNCHANGED <<pool, indicators, term, completed, ops, health_monitor, mon>>

disconnect_body(t) ==
    LET c == th[t].cur IN
    /\ th[t].pc = "disconnect_locked"
    /\ \E o \in {"ok", "shutdown_raised"} :
        /\ conn' = [conn EXCEPT ![c] = [disconnect_fields(@, o) EXCEPT !.lock = NoThread]]
        /\ term' = [term EXCEPT ![c] = disconnect_session(@, o)]
        /\ th' = [th EXCEPT ![t] =
                     IF Escapes(o) THEN Propagate(t) ELSE AfterDisconnect(t)]
    /\ UNCHANGED <<pool, indicators, completed, ops, health_monitor, mon>>

(***************************************************************************)
(* MT5Connection.reconnect: disconnect(); reconnect_count += 1; connect(). *)
(* The increment runs outside the lock: a load and a store.                *)
(***************************************************************************)
reconnect_read(t) ==
    /\ th[t].pc = "reconnect_read"
    /\ th' = [th EXCEPT ![t] = [@ EXCEPT !.tmp = conn[th[t].cur].reconnect_count,
                                         !.pc = "reconnect_write"]]
    /\ UNCHANGED <<pool, indicators, conn, term, completed, ops, health_monitor, mon>>

reconnect_write(t) ==
    /\ th[t].pc = "reconnect_write"
    /\ conn' = [conn EXCEPT ![th[t].cur].reconnect_count = th[t].tmp + 1]
    /\ th' = [th EXCEPT ![t] = [@ EXCEPT !.pc = "connect", !.tmp = 0]]
    /\ UNCHANGED <<pool, indicators, term, completed, ops, health_monitor, mon>>

(***************************************************************************)
(* MT5Connection.check_connection                                          *)
(***************************************************************************)
\* what account_info() can do, given the terminal session
CheckOutcomes(s) ==
    IF s = "logged_in" THEN {"ok", "none", "raised"} ELSE {"none", "raised"}

\* a check that records the error of a failed probe but keeps the flag
check_fields_keeps_flag(cn, o) ==
    IF o = "ok"
    THEN [cn EXCEPT !.connected = TRUE, !.error_message = None, !.last_check = TRUE]
    ELSE [cn EXCEPT !.error_message = CheckError]

check_fields(cn, o) ==
    CASE o = "ok" ->
           [cn EXCEPT !.connected = TRUE, !.error_message = None, !.last_check = TRUE]
      [] o = "none" ->
           [cn EXCEPT !.connected = FALSE, !.error_message = CheckError]
      [] OTHER ->
           [cn EXCEPT !.connected = FALSE, !.error_message = CheckError,
                      !.last_error = "set", !.last_check = TRUE]

check_connection_enter(t) ==
    LET c == th[t].cur IN
    /\ th[t].pc = "check_connection"
    /\ IF ~MT5_AVAILABLE
       THEN /\ conn' = [conn EXCEPT ![c].connected = FALSE]
            /\ th' = [th EXCEPT ![t] = [@ EXCEPT !.pc = th[t].ret, !.res = FALSE]]
       ELSE /\ LockFree(c)
            /\ conn' = Acquire(t, c)
            /\ th' = [th EXCEPT ![t] = Goto(t, "check_locked")]
    /\ UNCHANGED <<pool, indicators, term, completed, ops, health_monitor, mon>>

check_connection_body(t) ==
    LET c == th[t].cur IN
    /\ th[t].pc = "check_locked"
    /\ \E o \in CheckOutcomes(term[c]) :
        /\ conn' = [conn EXCEPT ![c] =
                       [IF Escapes(o) THEN @ ELSE check_fields(@, o)
                           EXCEPT !.lock = NoThread]]
        /\ th' = [th EXCEPT ![t] =
                     IF Escapes(o) THEN Propagate(t)
                     ELSE [@ EXCEPT !.pc = th[t].ret, !.res = (o = "ok")]]
    /\ UNCHANGED <<pool, indicators, term, completed, ops, health_monitor, mon>>


(***************************************************************************)
(* Starting and finishing an operation of a request worker                 *)
(***************************************************************************)
\* requests are served once create_app has initialised the pool
Serving == th[Main].pc # "init_connection_pool" /\ th[Main].op # "connect_all"

\* a request goes to the first idle worker of the server
CanStart(t) ==
    /\ Serving
    /\ th[t].pc = "idle"
    /\ \A u \in Workers : u < t => th[u].pc # "idle"
    /\ ops.started < MaxOps

Started(t, name) == [IdleThread EXCEPT !.op = name]

\* one more pool operation (request, admin call or monitor tick) has begun
CountRequest == [ops EXCEPT !.started = @ + 1]

finish(t) ==
    /\ th[t].pc = "done"
    /\ th' = [th EXCEPT ![t] = IdleThread]
    /\ UNCHANGED <<pool, indicators, conn, term, completed, ops, health_monitor, mon>>

(***************************************************************************)
(* routes/indicators.py get_indicators, with                               *)
(* MT5ConnectionPool.get_connection_by_symbol and fetch_indicator_data     *)
(***************************************************************************)
\* get_connection_by_symbol reconnects exactly when this holds of the flag it read
\* a lookup that reconnects on every call
NeedsReconnect_always(connected) == TRUE

NeedsReconnect(connected) == ~connected

get_indicators_start(t) ==
    /\ CanStart(t)
    /\ \E s \in Symbols :
         LET r == [Started(t, "get_indicators") EXCEPT !.arg = s] IN
         IF s \notin DOMAIN symbol_to_connection
         THEN th' = [th EXCEPT ![t] = [r EXCEPT !.pc = "done", !.out = "500 not configured"]]
         ELSE th' = [th EXCEPT ![t] =
                 [r EXCEPT !.pc = "lookup_check", !.cur = symbol_to_connection[s],
                           !.before = conn[symbol_to_connection[s]].reconnect_count]]
    /\ ops' = CountRequest
    /\ UNCHANGED <<pool, indicators, conn, term, completed, health_monitor, mon>>

get_connection_by_symbol_check(t) ==
    LET c == th[t].cur
        r == [th[t] EXCEPT !.saw = IF conn[c].connected THEN "connected" ELSE "disconnected"]
    IN
    /\ th[t].pc = "lookup_check"
    /\ th' = [th EXCEPT ![t] =
             IF NeedsReconnect(conn[c].connected)
             THEN CallReconnect(r, c, "lookup_return")
             ELSE [r EXCEPT !.pc = "lookup_return"]]
    /\ UNCHANGED <<pool, indicators, conn, term, completed, ops, health_monitor, mon>>

\* "if not connection.connected": the request is answered 503
\* a route that fetches whatever the connection's state
Unavailable_never(connected) == FALSE

Unavailable(connected) == ~connected

\* a fetch that takes any timeframe
Rejected_never(tf_ok) == FALSE

\* "if timeframe not in TIMEFRAME_MAP": fetch_indicator_data raises ValueError
Rejected(tf_ok) == ~tf_ok

\* lines 210-217 and the checks of fetch_indicator_data before it takes the
\* lock; tf_ok says whether the request's timeframe is in TIMEFRAME_MAP
get_indicators_check(t) ==
    LET c == th[t].cur IN
    /\ th[t].pc = "lookup_return"
    /\ \E tf \in BOOLEAN :
         th' = [th EXCEPT ![t] =
             IF Unavailable(conn[c].connected)
             THEN [@ EXCEPT !.pc = "done", !.out = "503 disconnected"]
             ELSE IF ~MT5_AVAILABLE
             THEN [@ EXCEPT !.pc = "done", !.out = "500 failed", !.tf_ok = tf]
             ELSE IF Rejected(tf)
             THEN [@ EXCEPT !.pc = "done", !.out = "400 invalid timeframe", !.tf_ok = tf]
             ELSE [@ EXCEPT !.pc = "fetch", !.tf_ok = tf]]
    /\ UNCHANGED <<pool, indicators, conn, term, completed, ops, health_monitor, mon>>

\* what copy_rates_from_pos() can do, given the terminal session
FetchOutcomes(s) ==
    IF s = "logged_in" THEN {"ok", "none", "raised"} ELSE {"none", "raised"}

fetch_enter(t) ==
    LET c == th[t].cur IN
    /\ th[t].pc = "fetch"
    /\ LockFree(c)
    /\ conn' = Acquire(t, c)
    /\ th' = [th EXCEPT ![t] = Goto(t, "fetch_locked")]
    /\ UNCHANGED <<pool, indicators, term, completed, ops, health_monitor, mon>>

\* _calculate_fractals looks side_bars bars to each side of a bar and needs
\* min_bars bars to find anything
side_bars == 35
min_bars == side_bars * 2 + 1

\* the lengths of the series copy_rates_from_pos() returns: empty, one bar
\* short of min_bars, min_bars
RatesLengths == {0, min_bars - 1, min_bars}

\* "if rates is None or len(rates) == 0": o = "ok" is a call that returned a
\* series, n its length
NoData(o, n) == o # "ok" \/ n = 0

fetch_call(t) ==
    LET c == th[t].cur IN
    /\ th[t].pc = "fetch_locked"
    /\ \E o \in FetchOutcomes(term[c]) :
       \E n \in IF o = "ok" THEN RatesLengths ELSE {0} :
         IF ~NoData(o, n)
         THEN /\ th' = [th EXCEPT ![t] = [@ EXCEPT !.pc = "fetch_compute", !.nfetch = @ + 1,
                                                  !.bars = n]]
              /\ UNCHANGED conn
         ELSE /\ th' = [th EXCEPT ![t] = [@ EXCEPT !.pc = "done", !.nfetch = @ + 1,
                                                  !.out = "500 failed"]]
              /\ conn' = [conn EXCEPT ![c].lock = NoThread]
    /\ UNCHANGED <<pool, indicators, term, completed, ops, health_monitor, mon>>

\* fractals and lines are computed inside the "with connection.lock" block
fetch_compute(t) ==
    LET c == th[t].cur IN
    /\ th[t].pc = "fetch_compute"
    /\ conn' = [conn EXCEPT ![c].lock = NoThread]
    /\ th' = [th EXCEPT ![t] = [@ EXCEPT !.pc = "done", !.out = "200"]]
    /\ UNCHANGED <<pool, indicators, term, completed, ops, health_monitor, mon>>

(***************************************************************************)
(* MT5ConnectionPool.restart_terminal                                      *)
(***************************************************************************)
\* a lookup that answers every id with some connection of the pool
get_connection_by_id_any(terminal_id) ==
    connections[CHOOSE k \in DOMAIN connections : TRUE]

\* MT5ConnectionPool.get_connection_by_id: self.connections.get(terminal_id)
get_connection_by_id(terminal_id) ==
    IF terminal_id \in DOMAIN connections THEN connections[terminal_id] ELSE NoConnection

restart_terminal_start(t) ==
    /\ CanStart(t)
    /\ \E id \in Ids :
         LET r == [Started(t, "restart_terminal") EXCEPT !.arg = id]
             connection == get_connection_by_id(id)
         IN
         IF connection = NoConnection
         THEN th' = [th EXCEPT ![t] = [r EXCEPT !.pc = "done", !.out = "not found"]]
         ELSE th' = [th EXCEPT ![t] = CallReconnect(r, connection, "restart_return")]
    /\ ops' = CountRequest
    /\ UNCHANGED <<pool, indicators, conn, term, completed, health_monitor, mon>>

\* a restart that always reports success
RestartResult_ok(success) == "restarted"

\* if success: return True, None; return False, connection.error_message
RestartResult(success) == IF success THEN "restarted" ELSE "restart failed"

restart_terminal_return(t) ==
    /\ th[t].pc = "restart_return"
    /\ th' = [th EXCEPT ![t] = [@ EXCEPT !.pc = "done", !.out = RestartResult(th[t].res)]]
    /\ UNCHANGED <<pool, indicators, conn, term, completed, ops, health_monitor, mon>>

(***************************************************************************)
(* MT5ConnectionPool.restart_all_terminals                                 *)
(***************************************************************************)
\* a loop that gives up after the first reconnect that failed
RestartAllLoop_abort(r) ==
    IF r.todo = <<>> \/ r.failed > 0
    THEN [r EXCEPT !.pc = "done",
                   !.out = IF r.failed = 0 THEN "all restarted" ELSE "some failed"]
    ELSE CallReconnect([r EXCEPT !.todo = Tail(@)], Head(r.todo), "restart_all_next")

\* for terminal_id, connection in self.connections.items(): ...; the returned
\* 'success' is failed == 0
RestartAllLoop(r) ==
    IF r.todo = <<>>
    THEN [r EXCEPT !.pc = "done",
                   !.out = IF r.failed = 0 THEN "all restarted" ELSE "some failed"]
    ELSE CallReconnect([r EXCEPT !.todo = Tail(@)], Head(r.todo), "restart_all_next")

restart_all_terminals_start(t) ==
    /\ CanStart(t)
    /\ th' = [th EXCEPT ![t] =
             RestartAllLoop([Started(t, "restart_all_terminals") EXCEPT
                                !.todo = ConnectionsValues])]
    /\ ops' = CountRequest
    /\ UNCHANGED <<pool, indicators, conn, term, completed, health_monitor, mon>>

restart_all_terminals_next(t) ==
    /\ th[t].pc = "restart_all_next"
    /\ th' = [th EXCEPT ![t] =
             RestartAllLoop([@ EXCEPT
                 !.results = Append(@, [terminal_id |-> conn[th[t].cur].id,
                                        success |-> th[t].res]),
                 !.successful = IF th[t].res THEN @ + 1 ELSE @,
                 !.failed = IF th[t].res THEN @ ELSE @ + 1])]
    /\ UNCHANGED <<pool, indicators, conn, term, completed, ops, health_monitor, mon>>

(***************************************************************************)
(* MT5ConnectionPool.check_all_connections / get_health_summary            *)
(***************************************************************************)
ConnectedIn(stat) == Cardinality({i \in 1..Len(stat) : stat[i].connected})

OverallStatus(connected_terminals, total_terminals) ==
    IF connected_terminals = 0 THEN "error"
    ELSE IF connected_terminals < total_terminals THEN "degraded"
    ELSE "ok"

HealthSummary(stat) ==
    LET total_terminals == Cardinality(DOMAIN connections)
        connected_terminals == ConnectedIn(stat)
    IN  [status |-> OverallStatus(connected_terminals, total_terminals),
         total_terminals |-> total_terminals,
         connected_terminals |-> connected_terminals]

\* where get_health_summary returns to
AfterSummary(r) == IF r.op = "get_health_summary" THEN "done" ELSE "tick_summary"

CheckAllLoop(r) ==
    IF r.todo = <<>>
    THEN [r EXCEPT !.pc = AfterSummary(r), !.summary = HealthSummary(r.stat)]
    ELSE [r EXCEPT !.cur = Head(r.todo), !.todo = Tail(@),
                   !.pc = "check_connection", !.ret = "get_status"]

get_health_summary_start(t) ==
    /\ CanStart(t)
    /\ th' = [th EXCEPT ![t] =
             CheckAllLoop([Started(t, "get_health_summary") EXCEPT !.todo = SymbolItems])]
    /\ ops' = CountRequest
    /\ UNCHANGED <<pool, indicators, conn, term, completed, health_monitor, mon>>

\* MT5Connection.get_status, read without the lock after check_connection returned
get_status(t) ==
    LET c == th[t].cur IN
    /\ th[t].pc = "get_status"
    /\ th' = [th EXCEPT ![t] =
             CheckAllLoop([@ EXCEPT !.stat =
                 Append(@, [symbol |-> conn[c].symbol, terminal |-> c,
                            connected |-> conn[c].connected])])]
    /\ UNCHANGED <<pool, indicators, conn, term, completed, ops, health_monitor, mon>>

(***************************************************************************)
(* MT5ConnectionPool.auto_reconnect_failed                                 *)
(***************************************************************************)
AutoReconnectLoop(r) ==
    IF r.todo = <<>>
    THEN [r EXCEPT !.pc = "wait"]
    ELSE [r EXCEPT !.cur = Head(r.todo), !.todo = Tail(@), !.pc = "auto_check"]

\* a scan that reconnects every connection, Connected or not
NeedsAutoReconnect_always(connected) == TRUE

\* if not connection.connected: ... connection.reconnect()
NeedsAutoReconnect(connected) == ~connected

\* scan records what the loop found each connection to be
auto_reconnect_failed_check(t) ==
    LET c == th[t].cur
        r == [th[t] EXCEPT !.scan = Append(@, [terminal |-> c,
                                               connected |-> conn[c].connected])]
    IN
    /\ th[t].pc = "auto_check"
    /\ th' = [th EXCEPT ![t] =
             IF NeedsAutoReconnect(conn[c].connected)
             THEN CallReconnect(r, c, "auto_next")
             ELSE AutoReconnectLoop(r)]
    /\ UNCHANGED <<pool, indicators, conn, term, completed, ops, health_monitor, mon>>

auto_reconnect_failed_next(t) ==
    /\ th[t].pc = "auto_next"
    /\ th' = [th EXCEPT ![t] =
             AutoReconnectLoop(
                 IF th[t].res
                 THEN [@ EXCEPT !.results = Append(@, [terminal_id |-> conn[th[t].cur].id,
                                                      success |-> TRUE])]
                 ELSE @)]
    /\ UNCHANGED <<pool, indicators, conn, term, completed, ops, health_monitor, mon>>

(***************************************************************************)
(* init_connection_pool: MT5ConnectionPool.connect_all on the main thread  *)
(***************************************************************************)
ConnectAllLoop(r) ==
    IF r.todo = <<>>
    THEN [IdleThread EXCEPT !.pc = "serving"]
    ELSE [r EXCEPT !.cur = Head(r.todo), !.todo = Tail(@), !.pc = "connect",
                   !.ret = "connect_all_next"]

init_connection_pool ==
    /\ th[Main].pc = "init_connection_pool"
    /\ th' = [th EXCEPT ![Main] =
             ConnectAllLoop([IdleThread EXCEPT !.op = "connect_all",
                                              !.todo = ConnectionsValues])]
    /\ UNCHANGED <<pool, indicators, conn, term, completed, ops, health_monitor, mon>>

connect_all_next ==
    /\ th[Main].pc = "connect_all_next"
    /\ th' = [th EXCEPT ![Main] = ConnectAllLoop(@)]
    /\ UNCHANGED <<pool, indicators, conn, term, completed, ops, health_monitor, mon>>

(***************************************************************************)
(* HealthMonitor (threading.Thread)                                        *)
(***************************************************************************)
\* Thread.is_alive(): from start() until run() returns
is_alive(m) == th[m].pc \notin {"unstarted", "dead"}

\* inside the try block of a tick
InTick(m) == th[m].pc \notin {"unstarted", "dead", "run", "loop", "wait"}

\* a stop() that forgets to set the event
stop_without_event(m) == [mon EXCEPT ![m].running = FALSE]

\* HealthMonitor.stop
stop(m) == [mon EXCEPT ![m].running = FALSE, ![m].stop_event = TRUE]

HealthMonitor_run(m) ==
    /\ th[m].pc = "run"
    /\ mon' = [mon EXCEPT ![m].running = TRUE]
    /\ th' = [th EXCEPT ![m] = Goto(m, "loop")]
    /\ UNCHANGED <<pool, indicators, conn, term, completed, ops, health_monitor>>

\* a loop that the RuntimeError of get_connection_pool() ends
HealthMonitor_loop_unguarded(m) ==
    /\ th[m].pc = "loop"
    /\ th' = [th EXCEPT ![m] = [IdleThread EXCEPT !.pc = "dead"]]
    /\ UNCHANGED <<pool, indicators, conn, term, completed, ops, health_monitor, mon>>

\* while not self._stop_event.is_set(): ... pool.get_health_summary();
\* get_connection_pool() raises RuntimeError while _connection_pool is None,
\* which the tick catches before it goes to the wait
HealthMonitor_loop(m) ==
    /\ th[m].pc = "loop"
    /\ IF mon[m].stop_event
       THEN /\ th' = [th EXCEPT ![m] = [IdleThread EXCEPT !.pc = "dead"]]
            /\ UNCHANGED <<ops, mon>>
       ELSE IF connection_pool = None
       THEN /\ th' = [th EXCEPT ![m] =
                     [IdleThread EXCEPT !.op = "tick", !.pc = "wait"]]
            /\ UNCHANGED <<ops, mon>>
       ELSE /\ ops.started < MaxOps /\ ops.ticks < MaxTicks
            /\ ops' = [CountRequest EXCEPT !.ticks = @ + 1]
            /\ UNCHANGED mon
            /\ th' = [th EXCEPT ![m] =
                     CheckAllLoop([IdleThread EXCEPT !.op = "tick", !.todo = SymbolItems])]
    /\ UNCHANGED <<pool, indicators, conn, term, completed, health_monitor>>

\* a tick that runs auto_reconnect_failed whatever the summary says
RunsAutoReconnect_always(summary) == TRUE

\* if connected < total: pool.auto_reconnect_failed()
RunsAutoReconnect(summary) == summary.connected_terminals < summary.total_terminals

HealthMonitor_after_summary(m) ==
    /\ th[m].pc = "tick_summary"
    /\ th' = [th EXCEPT ![m] =
             IF RunsAutoReconnect(th[m].summary)
             THEN AutoReconnectLoop([@ EXCEPT !.todo = ConnectionsValues])
             ELSE [@ EXCEPT !.pc = "wait"]]
    /\ UNCHANGED <<pool, indicators, conn, term, completed, ops, health_monitor, mon>>

\* self._stop_event.wait(self.check_interval) returns
HealthMonitor_wait(m) ==
    /\ th[m].pc = "wait"
    /\ th' = [th EXCEPT ![m] = [IdleThread EXCEPT !.pc = "loop"]]
    /\ UNCHANGED <<pool, indicators, conn, term, completed, ops, health_monitor, mon>>

(***************************************************************************)
(* start_health_monitor / stop_health_monitor on the main thread           *)
(***************************************************************************)
\* the next HealthMonitor object to be constructed
FreshMonitor == 100 + ops.starts + 1

\* _health_monitor = HealthMonitor(check_interval); _health_monitor.start()
StartFresh(ths) == [ths EXCEPT ![FreshMonitor] = [IdleThread EXCEPT !.pc = "run"]]

\* join(timeout=5) gives up on a monitor that is still inside a tick: the
\* terminal calls of a tick have no timeout
JoinTimesOut(m) == is_alive(m) /\ InTick(m)

start_health_monitor ==
    /\ th[Main].pc = "serving"
    /\ ops.starts + ops.stops < MaxCalls
    /\ IF health_monitor # NoThread /\ is_alive(health_monitor)
       THEN /\ mon' = stop(health_monitor)
            /\ th' = [th EXCEPT ![Main] = [@ EXCEPT !.pc = "join",
                                                   !.op = "start_health_monitor"]]
            /\ UNCHANGED <<health_monitor, ops>>
       ELSE /\ health_monitor' = FreshMonitor
            /\ th' = StartFresh(th)
            /\ ops' = [ops EXCEPT !.starts = @ + 1]
            /\ UNCHANGED mon
    /\ UNCHANGED <<pool, indicators, conn, term, completed>>

stop_health_monitor ==
    /\ th[Main].pc = "serving"
    /\ ops.starts + ops.stops < MaxCalls
    /\ ops' = [ops EXCEPT !.stops = @ + 1]
    /\ IF health_monitor # NoThread
       THEN /\ mon' = stop(health_monitor)
            /\ th' = [th EXCEPT ![Main] = [@ EXCEPT !.pc = "join",
                                                   !.op = "stop_health_monitor"]]
       ELSE UNCHANGED <<mon, th>>
    /\ UNCHANGED <<pool, indicators, conn, term, completed, health_monitor>>

\* where stop_health_monitor returns to: the caller, or the rest of cleanup
AfterStop(op) == IF op = "cleanup" THEN "shutdown_connection_pool" ELSE "serving"

\* _health_monitor.join(timeout=5); _health_monitor = None
join ==
    /\ th[Main].pc = "join"
    /\ ~is_alive(health_monitor) \/ JoinTimesOut(health_monitor)
    /\ IF th[Main].op = "start_health_monitor"
       THEN /\ health_monitor' = FreshMonitor
            /\ th' = [StartFresh(th) EXCEPT ![Main] = [IdleThread EXCEPT !.pc = "serving"]]
            /\ ops' = [ops EXCEPT !.starts = @ + 1]
       ELSE /\ health_monitor' = NoThread
            /\ th' = [th EXCEPT ![Main] =
                     [IdleThread EXCEPT !.pc = AfterStop(th[Main].op)]]
            /\ UNCHANGED ops
    /\ UNCHANGED <<pool, indicators, conn, term, completed, mon>>

(***************************************************************************)
(* cleanup (atexit): stop_health_monitor(), then shutdown_connection_pool() *)
(***************************************************************************)
cleanup ==
    /\ th[Main].pc = "serving"
    /\ IF health_monitor # NoThread
       THEN /\ mon' = stop(health_monitor)
            /\ th' = [th EXCEPT ![Main] = [@ EXCEPT !.pc = "join", !.op = "cleanup"]]
       ELSE /\ th' = [th EXCEPT ![Main] =
                     [IdleThread EXCEPT !.pc = "shutdown_connection_pool"]]
            /\ UNCHANGED mon
    /\ UNCHANGED <<pool, indicators, conn, term, completed, ops, health_monitor>>

\* for connection in self.connections.values(): connection.disconnect();
\* then _connection_pool = None
DisconnectAllLoop(r) ==
    IF r.todo = <<>>
    THEN [IdleThread EXCEPT !.pc = "exited"]
    ELSE [r EXCEPT !.cur = Head(r.todo), !.todo = Tail(@), !.pc = "disconnect",
                   !.ret = "disconnect_all_next"]

PoolAfterShutdown(r) == IF r.pc = "exited" THEN None ELSE connection_pool

\* shutdown_connection_pool: if _connection_pool: disconnect_all() ...
shutdown_connection_pool ==
    /\ th[Main].pc = "shutdown_connection_pool"
    /\ LET r == IF connection_pool # None
                THEN DisconnectAllLoop([IdleThread EXCEPT !.op = "disconnect_all",
                                                         !.todo = ConnectionsValues])
                ELSE [IdleThread EXCEPT !.pc = "exited"]
       IN  /\ th' = [th EXCEPT ![Main] = r]
           /\ connection_pool' = PoolAfterShutdown(r)
    /\ UNCHANGED <<MT5_AVAILABLE, terminals, connections, symbol_to_connection,
                   indicators, conn, term, completed, ops, health_monitor, mon>>

disconnect_all_next ==
    /\ th[Main].pc = "disconnect_all_next"
    /\ LET r == DisconnectAllLoop(th[Main])
       IN  /\ th' = [th EXCEPT ![Main] = r]
           /\ connection_pool' = PoolAfterShutdown(r)
    /\ UNCHANGED <<MT5_AVAILABLE, terminals, connections, symbol_to_connection,
                   indicators, conn, term, completed, ops, health_monitor, mon>>

\* is_health_monitor_running()
is_health_monitor_running == health_monitor # NoThread /\ is_alive(health_monitor)

(***************************************************************************)
(* Specification                                                           *)
(***************************************************************************)
ConnectionStep(t) ==
    \/ connect_enter(t)
    \/ connect_body(t)
    \/ disconnect_enter(t)
    \/ disconnect_body(t)
    \/ reconnect_read(t)
    \/ reconnect_write(t)
    \/ check_connection_enter(t)
    \/ check_connection_body(t)
    \/ get_status(t)

WorkerStep(t) ==
    \/ get_indicators_start(t)
    \/ get_connection_by_symbol_check(t)
    \/ get_indicators_check(t)
    \/ fetch_enter(t)
    \/ fetch_call(t)
    \/ fetch_compute(t)
    \/ restart_terminal_start(t)
    \/ restart_terminal_return(t)
    \/ restart_all_terminals_start(t)
    \/ restart_all_terminals_next(t)
    \/ get_health_summary_start(t)
    \/ finish(t)

MonitorStep(m) ==
    \/ HealthMonitor_run(m)
    \/ HealthMonitor_loop(m)
    \/ HealthMonitor_after_summary(m)
    \/ auto_reconnect_failed_check(m)
    \/ auto_reconnect_failed_next(m)
    \/ HealthMonitor_wait(m)

MainStep ==
    \/ init_connection_pool
    \/ connect_all_next
    \/ start_health_monitor
    \/ stop_health_monitor
    \/ join

\* request workers, admin calls and the health monitor on one pool
Next ==
    \/ \E t \in Workers \cup Monitors : ConnectionStep(t)
    \/ \E t \in Workers : WorkerStep(t)
    \/ \E m \in Monitors : MonitorStep(m)

Spec == Init /\ [][Next]_vars

\* start-up and the monitor's life cycle, driven by the main thread
NextLifecycle ==
    \/ \E t \in {Main} \cup Monitors : ConnectionStep(t)
    \/ \E m \in Monitors : MonitorStep(m)
    \/ MainStep

SpecLifecycle == InitLifecycle /\ [][NextLifecycle]_vars

\* one caller at a time
NextSequential == ConnectionStep(1) \/ WorkerStep(1)

SpecSequential == InitSequential /\ [][NextSequential]_vars

\* the health monitor alone on a pool constructed from any terminal list
NextMonitor == \E m \in Monitors : MonitorStep(m) \/ ConnectionStep(m)

SpecMonitor == InitMonitor /\ [][NextMonitor]_vars


\* the scheduler keeps running monitor threads that can run, and terminal
\* calls return
SpecLifecycleFair ==
    SpecLifecycle /\ WF_vars(\E m \in Monitors : MonitorStep(m) \/ ConnectionStep(m))

(***************************************************************************)
(* Properties                                                              *)
(***************************************************************************)

\* C1: for every connection, at most one thread at a time is inside a call
\* into that connection's terminal (connect, disconnect, check_connection,
\* fetch), under every interleaving of workers, admin calls and the monitor.
TerminalCallsNeverOverlap ==
    \A c \in Conns : Cardinality({t \in Threads : InTerminal(t, c)}) <= 1

\* a request waits to fetch while the monitor's liveness probe is in the terminal
TerminalCallsNeverOverlap_witness ==
    \E t \in Workers, m \in Monitors :
        /\ th[t].pc = "fetch" /\ th[m].pc = "check_locked"
        /\ th[t].cur = th[m].cur

\* C2: while a thread is between the disconnect step and the connect step
\* of reconnect() on a connection, no other thread holds that connection's
\* lock (so no fetch, check or other reconnect step runs in between).
BetweenDisconnectAndConnect(t) ==
    th[t].inrec /\ th[t].pc \in {"reconnect_read", "reconnect_write", "connect"}

ReconnectHoldsLockThroughout ==
    \A t \in Threads : BetweenDisconnectAndConnect(t) =>
        conn[th[t].cur].lock \in {t, NoThread}

\* C3: when get_connection_by_symbol returns a configured connection, it has
\* called reconnect() once (reconnect_count one higher) if it found the
\* connection not Connected and not at all if it found it Connected, and the
\* connection is Connected or carries the error recorded by connect().
LookupReconnectsExactlyOnce ==
    \A t \in Workers : th[t].pc = "lookup_return" =>
        LET c == th[t].cur IN
        /\ th[t].saw = "disconnected" =>
              th[t].nrec = 1 /\ conn[c].reconnect_count = th[t].before + 1
        /\ th[t].saw = "connected" =>
              th[t].nrec = 0 /\ conn[c].reconnect_count = th[t].before
        /\ conn[c].connected \/ conn[c].error_message = ConnectError

\* a lookup found the connection down, reconnected once and the connect failed
LookupReconnectsExactlyOnce_witness ==
    \E t \in Workers :
        /\ th[t].pc = "lookup_return" /\ th[t].saw = "disconnected"
        /\ th[t].nrec = 1 /\ ~conn[th[t].cur].connected
        /\ conn[th[t].cur].reconnect_count = 2

\* C4: a request whose lookup found the connection not Connected makes one
\* reconnect and no more; if the connection is not Connected when the route
\* looks at it afterwards, the request ends with 503 and has made no fetch call.
OneRetryState ==
    \A t \in Workers : th[t].op = "get_indicators" =>
        /\ th[t].nrec <= 1
        /\ th[t].saw = "disconnected" => th[t].nrec = 1
        /\ th[t].out = "503 disconnected" => th[t].nfetch = 0

OneRetryStep ==
    \A t \in Workers :
        (/\ th[t].pc = "lookup_return" /\ th'[t].pc # "lookup_return"
         /\ ~conn[th[t].cur].connected)
        => /\ th'[t].pc = "done" /\ th'[t].out = "503 disconnected"
           /\ th'[t].nfetch = 0

OneRetryThenUnavailable == []OneRetryState /\ [][OneRetryStep]_vars

OneRetryThenUnavailable_witness ==
    \E t \in Workers :
        /\ th[t].pc = "done" /\ th[t].out = "503 disconnected"
        /\ th[t].saw = "disconnected" /\ th[t].nrec = 1 /\ th[t].nfetch = 0

\* C5: at most one HealthMonitor thread is alive at any time.
AtMostOneMonitorAlive ==
    Cardinality({m \in Monitors : is_alive(m)}) <= 1

\* C6: stop_health_monitor with no monitor changes nothing; stopping a
\* monitor sets its stop event, the event stays set, a stopped monitor begins
\* no new tick, is_health_monitor_running is false when stop_health_monitor
\* returns, and from some point on every monitor that was asked to stop has
\* exited (a stop request and an exit are both final, so this says that each
\* stopped monitor eventually exits).
StopStep ==
    /\ (th[Main].pc = "serving" /\ health_monitor = NoThread
        /\ ops'.stops = ops.stops + 1)
       => UNCHANGED <<pool, indicators, conn, term, th, health_monitor, mon, completed>>
    /\ (th[Main].pc = "serving" /\ th'[Main].pc = "join")
       => mon'[health_monitor].stop_event
    /\ \A m \in Monitors :
        /\ mon[m].stop_event => mon'[m].stop_event
        /\ (mon[m].stop_event /\ ~InTick(m)) => ~InTick(m)'
    /\ (th[Main].op = "stop_health_monitor" /\ th[Main].pc = "join"
        /\ th'[Main].pc = "serving") => ~is_health_monitor_running'

StopIsIdempotentAndFinal ==
    /\ [][StopStep]_vars
    /\ <>[](\A m \in Monitors : mon[m].stop_event => ~is_alive(m))

\* stop was called twice, the second time with no monitor, and the thread is gone
StopIsIdempotentAndFinal_witness ==
    /\ th[Main].pc = "serving" /\ health_monitor = NoThread /\ ops.stops = 2
    /\ \E m \in Monitors : mon[m].stop_event /\ th[m].pc = "dead"

\* C7: the summary counts the connections the pool owns and those of them
\* that are Connected, and its status is error / degraded / ok accordingly.
OwnedConnections == {connections[k] : k \in DOMAIN connections}

SummaryMatchesPool ==
    \A t \in Workers :
        (th[t].op = "get_health_summary" /\ th[t].pc = "done") =>
            LET up == Cardinality({c \in OwnedConnections : conn[c].connected})
                all == Cardinality(OwnedConnections)
            IN  /\ th[t].summary.total_terminals = all
                /\ th[t].summary.connected_terminals = up
                /\ th[t].summary.status =
                      IF up = 0 THEN "error" ELSE IF up = all THEN "ok" ELSE "degraded"

\* C8: both maps hold the same connections, every symbol key maps to a
\* connection of that symbol and every id key to the connection of that id.
MapsAreViewsOfOneSet ==
    /\ {connections[k] : k \in DOMAIN connections}
          = {symbol_to_connection[k] : k \in DOMAIN symbol_to_connection}
    /\ \A k \in DOMAIN symbol_to_connection : conn[symbol_to_connection[k]].symbol = k
    /\ \A k \in DOMAIN connections : conn[connections[k]].id = k
    /\ connections = LoadConnections(terminals)
    /\ symbol_to_connection = LoadSymbolMap(terminals)

\* C9: when no reconnect() is in progress on a connection, its
\* reconnect_count is the number of reconnect() calls completed on it.
ReconnectCountIsExact ==
    \A c \in Conns :
        (\A t \in Threads : ~(th[t].inrec /\ th[t].cur = c)) =>
            conn[c].reconnect_count = completed[c]

\* C10: when connect() returns True the connection is Connected with no
\* error; when it returns False it is not Connected, an error is recorded
\* and the terminal session is closed.
ConnectStep ==
    \A t \in Threads :
        (th[t].pc \in {"connect", "connect_locked"}
         /\ th'[t].pc \notin {"connect", "connect_locked"})
        => LET c == th[t].cur IN
           IF th'[t].res
           THEN conn'[c].connected /\ conn'[c].error_message = None
           ELSE /\ ~conn'[c].connected /\ conn'[c].error_message # None
                /\ term'[c] = "closed"

ConnectLeavesCleanState == [][ConnectStep]_vars

\* C11: disconnect() returns with the connection not Connected, whatever the
\* state it was called in and whatever the terminal's shutdown() does.
DisconnectStep ==
    \A t \in Threads :
        (th[t].pc \in {"disconnect", "disconnect_locked"}
         /\ th'[t].pc \notin {"disconnect", "disconnect_locked"})
        => ~conn'[th[t].cur].connected

DisconnectAlwaysDisconnects == [][DisconnectStep]_vars

\* C12: check_connection() returns the connected flag it leaves behind; it
\* returns True only after a probe of a logged-in session, and then the error
\* message is cleared and last_check is set; after a probe that returned
\* nothing or raised (or without the terminal module) the connection is not
\* Connected.
CheckStep ==
    \A t \in Threads :
        (th[t].pc \in {"check_connection", "check_locked"}
         /\ th'[t].pc \notin {"check_connection", "check_locked"})
        => LET c == th[t].cur IN
           /\ th'[t].res = conn'[c].connected
           /\ th'[t].res =>
                 /\ MT5_AVAILABLE /\ term[c] = "logged_in"
                 /\ conn'[c].error_message = None /\ conn'[c].last_check
           /\ ~th'[t].res => conn'[c].error_message # None \/ ~MT5_AVAILABLE

CheckSetsStateFromProbe == [][CheckStep]_vars

\* the probe of a logged-in session failed: the connection is marked lost
CheckSetsStateFromProbe_witness ==
    \E t \in Threads :
        /\ th[t].pc = "get_status" /\ ~th[t].res
        /\ term[th[t].cur] = "logged_in"
        /\ ~conn[th[t].cur].connected /\ conn[th[t].cur].error_message = CheckError

\* C13: no exception leaves connect(), disconnect(), check_connection() or
\* reconnect(): whatever the terminal does, no thread unwinds out of them.
NoExceptionEscapes == \A t \in Threads : th[t].pc # "exception"

\* the terminal raised during the connect() of a reconnect(), which returned
\* False to restart_terminal with the exception recorded on the connection
NoExceptionEscapes_witness ==
    \E t \in Workers :
        /\ th[t].pc = "restart_return" /\ ~th[t].res
        /\ conn[th[t].cur].last_error = "set"
        /\ conn[th[t].cur].error_message = ConnectError

\* C14: a lookup by id returns the connection mapped to the id, or None for
\* an unknown id, and a lookup by an unconfigured symbol returns None without
\* a reconnect; both leave the maps, the terminal sessions and every
\* connection's fields unchanged.
LookupStep ==
    \A t \in Workers :
        /\ (th[t].pc = "idle" /\ th'[t].op = "restart_terminal") =>
              /\ UNCHANGED <<pool, indicators, conn, term, completed>>
              /\ IF th'[t].arg \in DOMAIN connections
                 THEN /\ th'[t].cur = connections[th'[t].arg]
                      /\ conn[th'[t].cur].id = th'[t].arg
                 ELSE th'[t].pc = "done" /\ th'[t].out = "not found"
        /\ (th[t].pc = "idle" /\ th'[t].op = "get_indicators"
            /\ th'[t].arg \notin DOMAIN symbol_to_connection) =>
              /\ UNCHANGED <<pool, indicators, conn, term, completed>>
              /\ th'[t].pc = "done" /\ th'[t].out = "500 not configured"
              /\ th'[t].nrec = 0

LookupsHaveNoSideEffect == [][LookupStep]_vars

\* an unknown id was looked up in a pool that has a Connected connection
LookupsHaveNoSideEffect_witness ==
    \E t \in Workers :
        /\ th[t].op = "restart_terminal" /\ th[t].out = "not found"
        /\ th[t].arg \notin DOMAIN connections
        /\ \E c \in Conns : conn[c].connected /\ conn[c].reconnect_count = 1

\* C15: when restart_all_terminals returns to a caller that had the pool to
\* itself, it has called reconnect() once per connection of the pool, its
\* results name every terminal id once with the Connected state that
\* terminal's reconnect left, successful_restarts + failed_restarts is the
\* number of terminals, and it reports success exactly when none failed.
RestartAllIsBestEffort ==
    \A t \in Workers :
        (th[t].op = "restart_all_terminals" /\ th[t].pc = "done") =>
            LET results == th[t].results
                total_terminals == Cardinality(DOMAIN connections)
            IN  /\ th[t].nrec = total_terminals
                /\ Len(results) = total_terminals
                /\ {results[i].terminal_id : i \in 1..Len(results)} = DOMAIN connections
                /\ \A i \in 1..Len(results) :
                      results[i].success = conn[connections[results[i].terminal_id]].connected
                /\ th[t].successful =
                      Cardinality({i \in 1..Len(results) : results[i].success})
                /\ th[t].successful + th[t].failed = total_terminals
                /\ (th[t].out = "all restarted") <=>
                      \A i \in 1..Len(results) : results[i].success

\* the first reconnect failed and the second terminal was still restarted
RestartAllIsBestEffort_witness ==
    \E t \in Workers :
        /\ th[t].op = "restart_all_terminals" /\ th[t].pc = "done"
        /\ Len(th[t].results) = 2
        /\ ~th[t].results[1].success /\ th[t].results[2].success
        /\ th[t].out = "some failed"

\* C16: restart_terminal with an unknown id returns 'not found' and changes
\* nothing; with a known id it calls reconnect() once on the connection of
\* that id and reports success exactly when that connection is Connected on
\* return; no step of it changes the fields of any other connection.
RestartTerminalState ==
    \A t \in Workers :
        (th[t].op = "restart_terminal" /\ th[t].pc = "done") =>
            IF th[t].arg \notin DOMAIN connections
            THEN th[t].out = "not found" /\ th[t].nrec = 0
            ELSE /\ th[t].nrec = 1 /\ th[t].cur = connections[th[t].arg]
                 /\ (th[t].out = "restarted") <=> conn[th[t].cur].connected
                 /\ th[t].out \in {"restarted", "restart failed"}

RestartTerminalStep ==
    \A t \in Workers :
        (th'[t].op = "restart_terminal" /\ th'[t] # th[t]) =>
            /\ UNCHANGED pool
            /\ \A c \in Conns : c # th'[t].cur =>
                  conn'[c] = conn[c] /\ completed'[c] = completed[c]
            /\ th'[t].out = "not found" => UNCHANGED <<conn, term, completed>>

RestartTouchesOneConnection == []RestartTerminalState /\ [][RestartTerminalStep]_vars

\* one terminal's restart failed while the other terminal stayed Connected
RestartTouchesOneConnection_witness ==
    \E t \in Workers :
        /\ th[t].op = "restart_terminal" /\ th[t].pc = "done"
        /\ th[t].out = "restart failed"
        /\ \E c \in Conns : c # th[t].cur /\ conn[c].connected

\* C17: when auto_reconnect_failed returns to a monitor that has the pool to
\* itself, it has scanned every connection of the pool once, it has called
\* reconnect() once for each connection it found not Connected and for no
\* other, and its result names exactly those of them that are now Connected;
\* scanning a Connected connection changes nothing, and no step of the scan
\* changes a connection other than the one it is reconnecting.
AutoReconnectState ==
    \A m \in Monitors :
        (th[m].pc = "wait" /\ th[m].scan # <<>>) =>
            LET scan == th[m].scan
                results == th[m].results
                down == {i \in 1..Len(scan) : ~scan[i].connected}
                up == {i \in down : conn[scan[i].terminal].connected}
            IN  /\ [i \in 1..Len(scan) |-> scan[i].terminal] = ConnectionsValues
                /\ th[m].nrec = Cardinality(down)
                /\ Len(results) = Cardinality(up)
                /\ {results[i].terminal_id : i \in 1..Len(results)}
                      = {conn[scan[i].terminal].id : i \in up}

AutoReconnectStep ==
    \A m \in Monitors :
        /\ (th[m].pc = "auto_check" /\ conn[th[m].cur].connected /\ th'[m] # th[m]) =>
              /\ UNCHANGED <<pool, indicators, conn, term, completed>>
              /\ th'[m].nrec = th[m].nrec /\ th'[m].results = th[m].results
        /\ (th'[m].scan # <<>> /\ th'[m] # th[m]) =>
              \A c \in Conns : c # th'[m].cur => conn'[c] = conn[c]

AutoReconnectOnlyFailed == []AutoReconnectState /\ [][AutoReconnectStep]_vars

\* the scan found one connection Connected and left it alone, and found the
\* other one down and reconnected it
AutoReconnectOnlyFailed_witness ==
    \E m \in Monitors :
        /\ th[m].pc = "wait" /\ Len(th[m].scan) = 2
        /\ th[m].scan[1].connected /\ ~th[m].scan[2].connected
        /\ th[m].nrec = 1 /\ Len(th[m].results) = 1

\* C18: while a request computes fractals and lines from the series it has
\* fetched, it does not hold the connection's lock.
FetchComputesOutsideLock ==
    \A t \in Workers :
        th[t].pc = "fetch_compute" => conn[th[t].cur].lock # t

\* C19: a request whose timeframe is not in TIMEFRAME_MAP never gets to the
\* lock or to the terminal call of fetch_indicator_data: if the route let it
\* through to the fetch it ends with the validation error (400), and the
\* step that rejects it changes no connection.
InvalidTimeframeState ==
    \A t \in Workers :
        (th[t].op = "get_indicators" /\ ~th[t].tf_ok) =>
            /\ th[t].pc \notin {"fetch", "fetch_locked", "fetch_compute"}
            /\ th[t].nfetch = 0
            /\ th[t].pc = "done" =>
                  th[t].out \in {"500 not configured", "503 disconnected",
                                 "400 invalid timeframe"}

InvalidTimeframeStep ==
    \A t \in Workers :
        (th[t].pc = "lookup_return" /\ th'[t].pc = "done"
         /\ th'[t].out = "400 invalid timeframe")
        => /\ UNCHANGED <<pool, indicators, conn, term, completed>>
           /\ conn[th[t].cur].lock # t

FetchRejectsShortSeries ==
    \A t \in Workers :
        (th[t].op = "get_indicators" /\ th[t].pc = "done" /\ th[t].nfetch > 0) =>
            (th[t].out = "200" <=> th[t].bars >= min_bars)

(***************************************************************************)
(* indicator_reader.py: the bar series a terminal returns                  *)
(***************************************************************************)
MaxBars == 5
\* prices of a bar, low <= high
Prices == 1..3
\* side_bars of a call on a short series (the default is 35)
SideBars == {1, 2}
\* bars of the H1 timeframe: one bar an hour
BarTime(i) == i * 3600

OHLC == {b \in [high : Prices, low : Prices] : b.low <= b.high}

\* the structured array copy_rates_from_pos returns for the bars l
Rates(l) ==
    [is_none |-> FALSE,
     bars |-> [i \in 1..Len(l) |->
                [time |-> BarTime(i - 1), high |-> l[i].high, low |-> l[i].low]]]

BarSeries == {Rates(l) : l \in ListsUpTo(OHLC, MaxBars)}

(***************************************************************************)
(* _calculate_fractals                                                     *)
(***************************************************************************)
\* rates[i], i counted from 0
Bar(r, i) == r[i + 1]

\* a detector that asks for a strictly lower high on both sides
IsPeak_strict(r, sb, i) ==
    /\ \A j \in 1..sb : ~(Bar(r, i).high <= Bar(r, i - j).high)
    /\ \A j \in 1..sb : ~(Bar(r, i).high <= Bar(r, i + j).high)

\* is_peak after the two loops over j
IsPeak(r, sb, i) ==
    /\ \A j \in 1..sb : ~(Bar(r, i).high <= Bar(r, i - j).high)
    /\ \A j \in 1..sb : ~(Bar(r, i).high < Bar(r, i + j).high)

\* a test that lets a bar be a bottom when a bar to its left is as low
IsBottom_loose(r, sb, i) ==
    /\ \A j \in 1..sb : ~(Bar(r, i).low > Bar(r, i - j).low)
    /\ \A j \in 1..sb : ~(Bar(r, i).low > Bar(r, i + j).low)

\* is_bottom after the two loops over j
IsBottom(r, sb, i) ==
    /\ \A j \in 1..sb : ~(Bar(r, i).low >= Bar(r, i - j).low)
    /\ \A j \in 1..sb : ~(Bar(r, i).low > Bar(r, i + j).low)

FractalPoint(r, i, value) ==
    [time |-> Bar(r, i).time, value |-> value, bar_index |-> i]

\* range(side_bars, len(rates) - side_bars), in order
Centres(r, sb) == [k \in 1..(Len(r) - 2 * sb) |-> sb + k - 1]

\* peaks and bottoms after the loop over i: a point is appended for each
\* centre that passes the test, in the order of the loop
FractalLoop(r, sb) ==
    LET is_peak(i) == IsPeak(r, sb, i)
        is_bottom(i) == IsBottom(r, sb, i)
        peak_at == SelectSeq(Centres(r, sb), is_peak)
        bottom_at == SelectSeq(Centres(r, sb), is_bottom)
    IN  [peaks |-> [k \in 1..Len(peak_at) |->
                        FractalPoint(r, peak_at[k], Bar(r, peak_at[k]).high)],
         bottoms |-> [k \in 1..Len(bottom_at) |->
                        FractalPoint(r, bottom_at[k], Bar(r, bottom_at[k]).low)]]

MinBars(sb) == sb * 2 + 1

calculate_fractals(rs, sb) ==
    IF rs.is_none \/ Len(rs.bars) < MinBars(sb) THEN empty_fractals
    ELSE FractalLoop(rs.bars, sb)

\* fetch_indicator_data, line 91: fractals = _calculate_fractals(rates) on
\* the series that passed line 78, side_bars left at its default
fetch_calculate_fractals ==
    /\ ~rates.is_none /\ Len(rates.bars) # 0
    /\ call' = [fn |-> "calculate_fractals", args |-> [side_bars |-> side_bars],
                result |-> calculate_fractals(rates, side_bars)]
    /\ fractals' = calculate_fractals(rates, side_bars)
    /\ UNCHANGED <<pool, conn, term, th, completed, ops, health_monitor, mon, rates>>

\* fractals = _calculate_fractals(rates, side_bars)
calculate_fractals_call ==
    /\ \E sb \in SideBars :
         /\ call' = [fn |-> "calculate_fractals", args |-> [side_bars |-> sb],
                     result |-> calculate_fractals(rates, sb)]
         /\ fractals' = calculate_fractals(rates, sb)
    /\ UNCHANGED <<pool, conn, term, th, completed, ops, health_monitor, mon, rates>>

\* the service is not running: an empty pool
NoService ==
    /\ MT5_AVAILABLE = FALSE
    /\ connection_pool = None
    /\ terminals = <<>>
    /\ connections = <<>>
    /\ symbol_to_connection = <<>>
    /\ conn = <<>>
    /\ term = <<>>
    /\ th = [t \in Threads |-> IdleThread]
    /\ completed = <<>>
    /\ ops = [started |-> 0, ticks |-> 0, starts |-> 0, stops |-> 0]
    /\ health_monitor = NoThread
    /\ mon = [m \in Monitors |-> NewMonitor]

\* _calculate_fractals called on any bar series, or on None
InitFractals ==
    /\ NoService
    /\ rates \in BarSeries \cup {NoRates}
    /\ fractals = empty_fractals
    /\ call = NoCall

NextFractals == calculate_fractals_call

SpecFractals == InitFractals /\ [][NextFractals]_vars

\* the spec's five-bar fixture, highs 10, 12, 15, 15, 11
FixtureHighs == <<10, 12, 15, 15, 11>>
Fixture == Rates([i \in 1..5 |-> [high |-> FixtureHighs[i], low |-> 9]])

PeaksOf(r, sb) ==
    {i \in sb..(Len(r) - 1 - sb) :
        \A j \in 1..sb : /\ r[i + 1].high > r[i + 1 - j].high
                         /\ r[i + 1].high >= r[i + 1 + j].high}

BottomsOf(r, sb) ==
    {i \in sb..(Len(r) - 1 - sb) :
        \A j \in 1..sb : /\ r[i + 1].low < r[i + 1 - j].low
                         /\ r[i + 1].low <= r[i + 1 + j].low}

\* the points ps are those of the bars I of r, in ascending order, each with
\* its bar's time
PointsOf(ps, r, I) ==
    /\ {ps[k].bar_index : k \in 1..Len(ps)} = I
    /\ \A a, b \in 1..Len(ps) : a < b => ps[a].bar_index < ps[b].bar_index
    /\ \A k \in 1..Len(ps) : ps[k].time = r[ps[k].bar_index + 1].time

\* C21: on a series of at least 2*side_bars+1 bars the peaks are exactly the
\* bars i in [side_bars, n-1-side_bars] whose high is strictly greater than
\* the side_bars highs before it and greater or equal to the side_bars highs
\* after it, the bottoms exactly those whose low is strictly less than the
\* lows before and less or equal to the lows after; both lists ascend by
\* bar_index and carry the bar's time and its high (low); the five-bar
\* fixture gives a peak at index 2 only.
FractalsAreTheLocalExtrema ==
    /\ (call.fn = "calculate_fractals" /\ ~rates.is_none
            /\ Len(rates.bars) >= 2 * call.args.side_bars + 1) =>
         LET r == rates.bars
             sb == call.args.side_bars
             f == call.result
         IN  /\ PointsOf(f.peaks, r, PeaksOf(r, sb))
             /\ \A k \in 1..Len(f.peaks) :
                    f.peaks[k].value = r[f.peaks[k].bar_index + 1].high
             /\ PointsOf(f.bottoms, r, BottomsOf(r, sb))
             /\ \A k \in 1..Len(f.bottoms) :
                    f.bottoms[k].value = r[f.bottoms[k].bar_index + 1].low
    /\ calculate_fractals(Fixture, 2).peaks =
          <<[time |-> BarTime(2), value |-> 15, bar_index |-> 2]>>

FractalsAreTheLocalExtrema_witness ==
    /\ call.fn = "calculate_fractals"
    /\ call.args.side_bars = 2
    /\ Len(rates.bars) = 5
    /\ Len(call.result.peaks) = 1
    /\ rates.bars[3].high = rates.bars[4].high
    /\ Len(call.result.bottoms) = 1

NoBarIsPeakAndBottom ==
    call.fn = "calculate_fractals" =>
        \A a \in 1..Len(call.result.peaks), b \in 1..Len(call.result.bottoms) :
            call.result.peaks[a].bar_index # call.result.bottoms[b].bar_index

(***************************************************************************)
(* indicator_reader.py: the fractal points the line functions are given    *)
(***************************************************************************)
MaxPoints == 4
\* prices of the fractal points
PointPrices == {1971, 2000, 2029}
\* tolerance_percent as a fraction: 1.5 (the default) and 0.5
Percent15 == [num |-> 3, den |-> 2]
Percent05 == [num |-> 1, den |-> 2]
\* latest_time: the time of the last bar, or None (0)
LastBarTime == BarTime(MaxPoints + 1)
\* the time of the last bar when the points are about a hundred bars old
LateBarTime == BarTime(MaxPoints + 99)
\* latest_time, tolerance_percent, min_touches of a call of
\* _calculate_horizontal_lines; the first are the values of fetch_indicator_data
HorizontalArgs ==
    {[latest_time |-> LastBarTime, tolerance_percent |-> Percent15, min_touches |-> 2],
     [latest_time |-> 0, tolerance_percent |-> Percent15, min_touches |-> 2],
     [latest_time |-> 0, tolerance_percent |-> Percent15, min_touches |-> 3],
     [latest_time |-> LastBarTime, tolerance_percent |-> Percent05, min_touches |-> 2],
     [latest_time |-> 0, tolerance_percent |-> Percent05, min_touches |-> 3],
     [latest_time |-> LastBarTime, tolerance_percent |-> Percent05, min_touches |-> 1],
     [latest_time |-> LateBarTime, tolerance_percent |-> Percent15, min_touches |-> 2]}
\* what pd.Timestamp.now() can return
Clock == {BarTime(MaxPoints + 2), BarTime(MaxPoints + 200)}

\* the dict of peaks and bottoms for the tagged points l, one per bar
Fractals(l) ==
    LET pt(k) == [time |-> BarTime(k), value |-> l[k].value, bar_index |-> k]
        RECURSIVE pick(_, _)
        pick(k, kind) ==
            IF k > Len(l) THEN <<>>
            ELSE IF l[k].is_peak = kind THEN <<pt(k)>> \o pick(k + 1, kind)
            ELSE pick(k + 1, kind)
    IN  [peaks |-> pick(1, TRUE), bottoms |-> pick(1, FALSE)]

FractalInputs ==
    {Fractals(l) : l \in ListsUpTo([value : PointPrices, is_peak : BOOLEAN], MaxPoints)}

(***************************************************************************)
(* _find_horizontal_clusters                                               *)
(***************************************************************************)
Abs(x) == IF x < 0 THEN -x ELSE x

Max(a, b) == IF a >= b THEN a ELSE b

MaxOf(S) == CHOOSE x \in S : \A y \in S : y <= x

MinOf(S) == CHOOSE x \in S : \A y \in S : x <= y

\* sorted(points, key=lambda x: x['time'], reverse=True): a stable sort
RECURSIVE SortedByTimeDesc(_)
SortedByTimeDesc(ps) ==
    IF Len(ps) = 0 THEN <<>>
    ELSE LET rest == SortedByTimeDesc(Tail(ps))
             k == Cardinality({i \in 1..Len(rest) : rest[i].time > Head(ps).time})
         IN  SubSeq(rest, 1, k) \o <<Head(ps)>> \o SubSeq(rest, k + 1, Len(rest))

\* clusters.sort(key=lambda x: x['score'], reverse=True): a stable sort
RECURSIVE SortedByScoreDesc(_)
SortedByScoreDesc(cs) ==
    IF Len(cs) = 0 THEN <<>>
    ELSE LET rest == SortedByScoreDesc(Tail(cs))
             k == Cardinality({i \in 1..Len(rest) : rest[i].score > Head(cs).score})
         IN  SubSeq(rest, 1, k) \o <<Head(cs)>> \o SubSeq(rest, k + 1, Len(rest))

\* abs(value - anchor_price) <= anchor_price * (tolerance_percent / 100.0)
WithinTolerance(value, anchor_price, tol) ==
    Abs(value - anchor_price) * 100 * tol.den <= anchor_price * tol.num

\* a scan that takes the points of earlier clusters again
Unused_any(j, used_indices) == TRUE

\* j in used_indices: continue
Unused(j, used_indices) == j \notin used_indices

\* touch_indices of the anchor sp[i]
TouchIndices(sp, i, used_indices, tol) ==
    {i} \cup {j \in 1..Len(sp) :
                /\ j # i
                /\ Unused(j, used_indices)
                /\ WithinTolerance(sp[j].value, sp[i].value, tol)}

RECURSIVE SumValues(_, _)
SumValues(sp, T) ==
    IF T = {} THEN 0
    ELSE LET j == CHOOSE x \in T : TRUE
         IN  sp[j].value + SumValues(sp, T \ {j})

\* the dict appended to clusters, with touch_indices as members; avg_price
\* is the fraction num/den and the score is in 1/3600
Cluster(sp, T, end_time) ==
    LET avg_price == [num |-> SumValues(sp, T), den |-> Cardinality(T)]
        start_time == MinOf({sp[j].time : j \in T})
        max_time == MaxOf({sp[j].time : j \in T})
        age == IF end_time > max_time THEN end_time - max_time ELSE 0
    IN  [line |-> <<[time |-> start_time, value |-> avg_price],
                    [time |-> end_time, value |-> avg_price]>>,
         score |-> Cardinality(T) * 25 * 3600 + Max(0, 100 * 3600 - age),
         touches |-> Cardinality(T),
         members |-> T]

\* for i, anchor in enumerate(sorted_points), from i on
RECURSIVE ClusterLoop(_, _, _, _, _, _, _)
ClusterLoop(sp, tol, min_touches, end_time, i, used_indices, clusters) ==
    IF i > Len(sp) THEN clusters
    ELSE IF i \in used_indices
         THEN ClusterLoop(sp, tol, min_touches, end_time, i + 1, used_indices, clusters)
         ELSE LET T == TouchIndices(sp, i, used_indices, tol)
              IN  IF Cardinality(T) >= min_touches
                  THEN ClusterLoop(sp, tol, min_touches, end_time, i + 1,
                                   used_indices \cup T,
                                   Append(clusters, Cluster(sp, T, end_time)))
                  ELSE ClusterLoop(sp, tol, min_touches, end_time, i + 1,
                                   used_indices, clusters)

\* clusters in the order the loop finds them
HorizontalClusters_unsorted(points, tol, min_touches, end_time) ==
    IF Len(points) < min_touches THEN <<>>
    ELSE ClusterLoop(SortedByTimeDesc(points), tol, min_touches, end_time,
                     1, {}, <<>>)

\* clusters after the sort by score; members index sorted_points
HorizontalClusters(points, tol, min_touches, end_time) ==
    IF Len(points) < min_touches THEN <<>>
    ELSE SortedByScoreDesc(
            ClusterLoop(SortedByTimeDesc(points), tol, min_touches, end_time,
                        1, {}, <<>>))

\* return [c['line'] for c in clusters]
find_horizontal_clusters(points, tol, min_touches, end_time) ==
    LET cs == HorizontalClusters(points, tol, min_touches, end_time)
    IN  [k \in 1..Len(cs) |-> cs[k].line]

(***************************************************************************)
(* _calculate_horizontal_lines                                             *)
(***************************************************************************)
\* an end time taken from the clock whatever latest_time is
EndTime_now(fr, latest_time, now) == now

EndTime(fr, latest_time, now) ==
    LET all_times == {fr.peaks[k].time : k \in 1..Len(fr.peaks)}
                        \cup {fr.bottoms[k].time : k \in 1..Len(fr.bottoms)}
    IN  IF latest_time # 0 THEN latest_time
        ELSE IF all_times # {} THEN MaxOf(all_times) + 3600
        ELSE now

\* enumerate(lines[:3]): the k-th line, [] when there is none
Nth(lines, k) == IF k <= Len(lines) THEN lines[k] ELSE <<>>

\* result[f'peak_{i + 1}'] = line, result[f'bottom_{i + 1}'] = line
HorizontalResult(peak_lines, bottom_lines) ==
    [peak_1 |-> Nth(peak_lines, 1), peak_2 |-> Nth(peak_lines, 2),
     peak_3 |-> Nth(peak_lines, 3),
     bottom_1 |-> Nth(bottom_lines, 1), bottom_2 |-> Nth(bottom_lines, 2),
     bottom_3 |-> Nth(bottom_lines, 3)]

\* [c['line'] for c in clusters]
Lines(cs) == [k \in 1..Len(cs) |-> cs[k].line]

calculate_horizontal_lines(fr, latest_time, tol, min_touches, now) ==
    LET end_time == EndTime(fr, latest_time, now)
    IN  HorizontalResult(
            find_horizontal_clusters(fr.peaks, tol, min_touches, end_time),
            find_horizontal_clusters(fr.bottoms, tol, min_touches, end_time))

\* The line functions are called on fractal points given to them, or by
\* fetch_indicator_data on the fractals it has just detected with the
\* default side_bars.
LinesCallable ==
    \/ rates.is_none /\ call.fn = "none"
    \/ call.fn = "calculate_fractals" /\ call.args.side_bars = side_bars

\* horizontal_lines = _calculate_horizontal_lines(fractals, latest_time,
\* tolerance_percent, min_touches); clusters are those of the two calls of
\* _find_horizontal_clusters
calculate_horizontal_lines_call ==
    /\ LinesCallable
    /\ \E args \in HorizontalArgs, now \in Clock :
         LET end_time == EndTime(fractals, args.latest_time, now)
             peak_clusters ==
                 HorizontalClusters(fractals.peaks, args.tolerance_percent,
                                    args.min_touches, end_time)
             bottom_clusters ==
                 HorizontalClusters(fractals.bottoms, args.tolerance_percent,
                                    args.min_touches, end_time)
         IN
         call' = [fn |-> "calculate_horizontal_lines",
                  args |-> args,
                  result |-> HorizontalResult(Lines(peak_clusters),
                                              Lines(bottom_clusters)),
                  points |-> [peaks |-> SortedByTimeDesc(fractals.peaks),
                              bottoms |-> SortedByTimeDesc(fractals.bottoms)],
                  clusters |-> [peaks |-> peak_clusters, bottoms |-> bottom_clusters]]
    /\ UNCHANGED <<pool, conn, term, th, completed, ops, health_monitor, mon,
                   rates, fractals>>

\* the line functions called on any fractal points
InitLines ==
    /\ NoService
    /\ rates = NoRates
    /\ fractals \in FractalInputs
    /\ call = NoCall

\* C24: the clusters formed by _find_horizontal_clusters are pairwise
\* disjoint (no point is a member of two of them) and each has at least
\* min_touches members.
ClustersAreDisjoint ==
    call.fn = "calculate_horizontal_lines" =>
        \A side \in {"peaks", "bottoms"} :
            LET cs == call.clusters[side] IN
            /\ \A a, b \in 1..Len(cs) : a # b => cs[a].members \cap cs[b].members = {}
            /\ \A a \in 1..Len(cs) :
                  /\ Cardinality(cs[a].members) >= call.args.min_touches
                  /\ cs[a].touches = Cardinality(cs[a].members)
                  /\ cs[a].members \subseteq 1..Len(call.points[side])

ClustersAreDisjoint_witness ==
    /\ call.fn = "calculate_horizontal_lines"
    /\ call.args.min_touches = 2
    /\ Len(call.clusters.peaks) = 2
    /\ call.args.tolerance_percent.num = 3
    /\ \E j \in call.clusters.peaks[1].members :
          call.points.peaks[j].value # 2000

\* C25: in every cluster, every member's price is within tolerance_percent %
\* of the cluster's price level, the arithmetic mean of its members.
ClusterMembersNearLevel ==
    call.fn = "calculate_horizontal_lines" =>
        \A side \in {"peaks", "bottoms"} :
            \A a \in 1..Len(call.clusters[side]) :
                LET c == call.clusters[side][a]
                    level == c.line[1].value
                    tol == call.args.tolerance_percent
                IN  \A j \in c.members :
                        Abs(call.points[side][j].value * level.den - level.num)
                                * 100 * tol.den
                            <= level.num * tol.num

(***************************************************************************)
(* _calculate_diagonal_lines                                               *)
(***************************************************************************)
\* tolerance_percent, min_angle, max_angle, min_touches of a call of
\* _calculate_diagonal_lines, the angles in tenths of a degree; the first are
\* the defaults
DiagonalArgs ==
    {[tolerance_percent |-> Percent15, min_angle |-> 5, max_angle |-> 600, min_touches |-> 2],
     [tolerance_percent |-> Percent15, min_angle |-> 5, max_angle |-> 50, min_touches |-> 2],
     [tolerance_percent |-> Percent15, min_angle |-> 5, max_angle |-> 600, min_touches |-> 3],
     [tolerance_percent |-> Percent05, min_angle |-> 5, max_angle |-> 50, min_touches |-> 2],
     [tolerance_percent |-> Percent05, min_angle |-> 5, max_angle |-> 600, min_touches |-> 3]}

\* tan of an angle, in 1/10000; atan is odd and increasing, so an angle
\* |degrees(atan(x))| is below a bound exactly when |x| is below its tan
TanOf(tenths) ==
    CASE tenths = 5 -> 87
      [] tenths = 50 -> 875
      [] tenths = 600 -> 17321

\* all_fractals before the sort: peaks, then bottoms, tagged
AllFractals(fr) ==
    [k \in 1..Len(fr.peaks) |->
        [time |-> fr.peaks[k].time, value |-> fr.peaks[k].value, is_peak |-> TRUE]]
    \o [k \in 1..Len(fr.bottoms) |->
        [time |-> fr.bottoms[k].time, value |-> fr.bottoms[k].value, is_peak |-> FALSE]]

\* all_fractals.sort(key=lambda x: x['time']): a stable sort
RECURSIVE SortedByTime(_)
SortedByTime(ps) ==
    IF Len(ps) = 0 THEN <<>>
    ELSE LET rest == SortedByTime(Tail(ps))
             k == Cardinality({i \in 1..Len(rest) : rest[i].time < Head(ps).time})
         IN  SubSeq(rest, 1, k) \o <<Head(ps)>> \o SubSeq(rest, k + 1, Len(rest))

\* all_fractals[-50:] if len(all_fractals) > 50 else all_fractals
RecentFractals(fr) ==
    LET af == SortedByTime(AllFractals(fr))
    IN  IF Len(af) > 50 THEN SubSeq(af, Len(af) - 49, Len(af)) ELSE af

RECURSIVE Gcd(_, _)
Gcd(a, b) == IF b = 0 THEN a ELSE Gcd(b, a % b)

\* normalized_slope * 10 as the fraction num/den in lowest terms:
\* ((price_diff / avg_price) / (time_diff / 3600)) * 10
NormalizedSlope10(p1, p2) ==
    LET n == (p2.value - p1.value) * 2 * 3600 * 10
        d == (p1.value + p2.value) * (p2.time - p1.time)
        g == Gcd(Abs(n), Abs(d))
    IN  [num |-> n \div g, den |-> d \div g]

\* tan of angle_deg = abs(math.degrees(math.atan(normalized_slope * 10)))
AngleTan(p1, p2) ==
    [num |-> Abs(NormalizedSlope10(p1, p2).num),
     den |-> Abs(NormalizedSlope10(p1, p2).den)]

\* a filter that lets every pair through
AngleInRange_any(p1, p2, range) == TRUE

\* not (angle_deg < min_angle or angle_deg > max_angle)
AngleInRange(p1, p2, range) ==
    LET t == AngleTan(p1, p2)
    IN  /\ ~(t.num * 10000 < TanOf(range[1]) * t.den)
        /\ ~(t.num * 10000 > TanOf(range[2]) * t.den)

\* abs(frac['value'] - expected_price) <= tolerance for the line through p1
\* and p2, expected_price = slope * frac['time'] + y_intercept
Touches(frac, p1, p2, tol) ==
    LET time_diff == p2.time - p1.time
        price_diff == p2.value - p1.value
    IN  Abs((frac.value - p1.value) * time_diff - price_diff * (frac.time - p1.time))
                * 100 * tol.den
            <= frac.value * tol.num * time_diff

Min(a, b) == IF a <= b THEN a ELSE b

\* a classification that calls every pair ascending
IsAscending_always(p1, p2) == TRUE

\* if price_diff > 0: ascending_lines.append(line_data)
IsAscending(p1, p2) == p2.value - p1.value > 0

\* line_data of the pair (i, j) of recent_fractals; the score is in 1/36000
LineData(rf, i, j, tol) ==
    LET p1 == rf[i]
        p2 == rf[j]
        touches == {k \in 1..Len(rf) : Touches(rf[k], p1, p2, tol)}
    IN  [line |-> <<[time |-> p1.time, value |-> p1.value],
                    [time |-> p2.time, value |-> p2.value]>>,
         score |-> Cardinality(touches) * 25 * 36000
                     + Min(p2.time - p1.time, 100 * 3600)
                     + (IF j - 1 >= Len(rf) - 5 THEN 50 * 36000 ELSE 0),
         touches |-> Cardinality(touches),
         ascending |-> IsAscending(p1, p2),
         pair |-> <<i, j>>]

\* the pairs the two loops keep, in the order they find them
RECURSIVE PairLoop(_, _, _, _, _, _, _)
PairLoop(rf, tol, range, min_touches, i, j, acc) ==
    IF i > Len(rf) - 1 THEN acc
    ELSE IF j > Len(rf)
         THEN PairLoop(rf, tol, range, min_touches, i + 1, i + 2, acc)
         ELSE LET line_data == LineData(rf, i, j, tol) IN
              IF rf[j].time - rf[i].time <= 0
                   \/ ~AngleInRange(rf[i], rf[j], range)
                   \/ line_data.touches < min_touches
              THEN PairLoop(rf, tol, range, min_touches, i, j + 1, acc)
              ELSE PairLoop(rf, tol, range, min_touches, i, j + 1,
                            Append(acc, line_data))

\* _empty_diagonal_lines(), also the initial result
empty_diagonal_lines ==
    [ascending_1 |-> <<>>, ascending_2 |-> <<>>, ascending_3 |-> <<>>,
     descending_1 |-> <<>>, descending_2 |-> <<>>, descending_3 |-> <<>>]

calculate_diagonal_lines(fr, tol, range, min_touches) ==
    IF Len(fr.peaks) + Len(fr.bottoms) < 2 THEN empty_diagonal_lines
    ELSE LET rf == RecentFractals(fr)
             found == PairLoop(rf, tol, range, min_touches, 1, 2, <<>>)
             up(l) == l.ascending
             down(l) == ~l.ascending
             ascending_lines == SortedByScoreDesc(SelectSeq(found, up))
             descending_lines == SortedByScoreDesc(SelectSeq(found, down))
             line(ls, k) == IF k <= Len(ls) THEN ls[k].line ELSE <<>>
         IN  [ascending_1 |-> line(ascending_lines, 1),
              ascending_2 |-> line(ascending_lines, 2),
              ascending_3 |-> line(ascending_lines, 3),
              descending_1 |-> line(descending_lines, 1),
              descending_2 |-> line(descending_lines, 2),
              descending_3 |-> line(descending_lines, 3)]

\* diagonal_lines = _calculate_diagonal_lines(fractals, tolerance_percent,
\* min_angle, max_angle, min_touches)
calculate_diagonal_lines_call ==
    /\ LinesCallable
    /\ \E args \in DiagonalArgs :
         call' = [fn |-> "calculate_diagonal_lines",
                  args |-> args,
                  result |-> calculate_diagonal_lines(fractals, args.tolerance_percent,
                                <<args.min_angle, args.max_angle>>, args.min_touches)]
    /\ UNCHANGED <<pool, conn, term, th, completed, ops, health_monitor, mon,
                   rates, fractals>>

NextLines == calculate_horizontal_lines_call \/ calculate_diagonal_lines_call

SpecLines == InitLines /\ [][NextLines]_vars

DiagonalKeys ==
    {"ascending_1", "ascending_2", "ascending_3",
     "descending_1", "descending_2", "descending_3"}

\* C26: every diagonal line returned has its angle, the absolute value of
\* atan of ten times the price-normalised hourly slope of its two end
\* points, within [min_angle, max_angle]; the angle of a pair of points is
\* the same whichever point is taken first, so the pair passes the angle
\* filter in one order exactly when it passes in the other.
DiagonalAngleInRange ==
    call.fn = "calculate_diagonal_lines" =>
        LET range == <<call.args.min_angle, call.args.max_angle>>
            rf == RecentFractals(fractals)
        IN  /\ \A key \in DiagonalKeys :
                 LET l == call.result[key] IN
                 Len(l) # 0 =>
                    LET t == AngleTan(l[1], l[2]) IN
                    /\ t.num * 10000 >= TanOf(range[1]) * t.den
                    /\ t.num * 10000 <= TanOf(range[2]) * t.den
            /\ \A i, j \in 1..Len(rf) :
                 rf[i].time < rf[j].time =>
                    /\ AngleTan(rf[i], rf[j]) = AngleTan(rf[j], rf[i])
                    /\ AngleInRange(rf[i], rf[j], range)
                          <=> AngleInRange(rf[j], rf[i], range)

DiagonalAngleInRange_witness ==
    /\ call.fn = "calculate_diagonal_lines"
    /\ call.args.min_angle = 5 /\ call.args.max_angle = 50
    /\ Len(call.result.ascending_1) # 0
    /\ Len(call.result.descending_1) # 0
    /\ \E i, j \in 1..Len(RecentFractals(fractals)) :
          /\ i < j
          /\ RecentFractals(fractals)[i].value # RecentFractals(fractals)[j].value
          /\ ~AngleInRange(RecentFractals(fractals)[i], RecentFractals(fractals)[j],
                           <<5, 50>>)

(***************************************************************************)
(* fetch_indicator_data on a rising series: detection with the default     *)
(* side_bars, then the diagonal lines                                      *)
(***************************************************************************)
\* 200 bars that never fall: the high rises by step every plateau bars from
\* start, the low is spread below the high
Uptrend(start, step, plateau, spread) ==
    Rates([i \in 1..200 |->
            [high |-> start + step * ((i - 1) \div plateau),
             low |-> start + step * ((i - 1) \div plateau) - spread]])

Uptrends ==
    {Uptrend(start, step, plateau, spread) :
        start \in {100, 1000}, step \in {1, 5}, plateau \in {1, 40}, spread \in {0, 1}}

InitUptrend ==
    /\ NoService
    /\ rates \in Uptrends
    /\ fractals = empty_fractals
    /\ call = NoCall

NextUptrend ==
    \/ fetch_calculate_fractals
    \/ calculate_horizontal_lines_call
    \/ calculate_diagonal_lines_call

SpecUptrend == InitUptrend /\ [][NextUptrend]_vars

\* C27: fractal detection with side_bars = 35 followed by the diagonal lines
\* with default parameters, on a 200-bar series that rises monotonically,
\* gives at least one ascending line, of positive slope, and no descending
\* line.
UptrendGivesAscendingLine ==
    (call.fn = "calculate_diagonal_lines"
        /\ call.args.tolerance_percent = Percent15 /\ call.args.min_touches = 2
        /\ call.args.min_angle = 5 /\ call.args.max_angle = 600) =>
       /\ Len(call.result.ascending_1) = 2
       /\ call.result.ascending_1[2].time > call.result.ascending_1[1].time
       /\ call.result.ascending_1[2].value > call.result.ascending_1[1].value
       /\ Len(call.result.descending_1) = 0
       /\ Len(call.result.descending_2) = 0
       /\ Len(call.result.descending_3) = 0

(***************************************************************************)
(* The three functions called on any input of theirs                       *)
(***************************************************************************)
InitPure == InitFractals \/ InitLines

NextPure ==
    \/ calculate_fractals_call
    \/ calculate_horizontal_lines_call
    \/ calculate_diagonal_lines_call

SpecPure == InitPure /\ [][NextPure]_vars

\* a run of the function of the last call on the same input returns what
\* the call returned, whatever the clock shows
SameOutputAgain ==
    /\ call.fn = "calculate_fractals" =>
          call.result = calculate_fractals(rates, call.args.side_bars)
    /\ call.fn = "calculate_horizontal_lines" =>
          \A now \in Clock :
              call.result = calculate_horizontal_lines(fractals, call.args.latest_time,
                                call.args.tolerance_percent, call.args.min_touches, now)
    /\ call.fn = "calculate_diagonal_lines" =>
          call.result = calculate_diagonal_lines(fractals, call.args.tolerance_percent,
                            <<call.args.min_angle, call.args.max_angle>>,
                            call.args.min_touches)

\* a call leaves its input as it was: the bar series for the detection, the
\* fractal points for the two line functions
InputUnmodified ==
    call' # call =>
        /\ rates' = rates
        /\ call'.fn # "calculate_fractals" => fractals' = fractals

ConfigFiles ==
    {[kind |-> k, terminals |-> <<>>] :
        k \in {"FileNotFoundError", "JSONDecodeError", "KeyError"}}
    \cup {[kind |-> "terminals", terminals |-> l] :
            l \in ListsUpTo([id : Ids, symbol : Symbols], MaxTerminals)}

\* create_app before init_connection_pool: _connection_pool is None
InitStartup ==
    /\ MT5_AVAILABLE \in BOOLEAN
    /\ connection_pool = None
    /\ terminals = <<>>
    /\ connections = <<>>
    /\ symbol_to_connection = <<>>
    /\ conn = <<>>
    /\ term = <<>>
    /\ th = [t \in Threads |->
                IF t = Main THEN [IdleThread EXCEPT !.pc = "create_app"]
                ELSE IF t \in Monitors THEN [IdleThread EXCEPT !.pc = "unstarted"]
                ELSE IdleThread]
    /\ completed = <<>>
    /\ ops = [started |-> 0, ticks |-> 0, starts |-> 0, stops |-> 0]
    /\ health_monitor = NoThread
    /\ mon = [m \in Monitors |-> NewMonitor]
    /\ IndicatorsIdle

\* _connection_pool = MT5ConnectionPool(config_path): __init__ and
\* _load_config; an exception of _load_config leaves the global None
MT5ConnectionPool_init ==
    /\ th[Main].pc = "create_app"
    /\ \E cfg \in ConfigFiles :
         IF cfg.kind # "terminals"
         THEN /\ th' = [th EXCEPT ![Main] =
                          [IdleThread EXCEPT !.pc = "exception", !.arg = cfg.kind]]
              /\ UNCHANGED <<pool, conn, term, completed>>
         ELSE LET l == cfg.terminals IN
              /\ connection_pool' = "MT5ConnectionPool"
              /\ terminals' = l
              /\ connections' = LoadConnections(l)
              /\ symbol_to_connection' = LoadSymbolMap(l)
              /\ conn' = [c \in 1..Len(l) |-> MT5Connection(l[c])]
              /\ term' = [c \in 1..Len(l) |-> "closed"]
              /\ completed' = [c \in 1..Len(l) |-> 0]
              /\ th' = [th EXCEPT ![Main] =
                          [IdleThread EXCEPT !.pc = "init_connection_pool",
                                             !.arg = cfg.kind]]
              /\ UNCHANGED MT5_AVAILABLE
    /\ UNCHANGED <<indicators, ops, health_monitor, mon>>

NextStartup ==
    \/ MT5ConnectionPool_init
    \/ init_connection_pool
    \/ connect_all_next
    \/ connect_enter(Main)
    \/ connect_body(Main)

SpecStartup == InitStartup /\ [][NextStartup]_vars

\* C29: pool initialisation raises, and leaves no pool, whenever the
\* configuration cannot be parsed or has no terminals; no pool with zero
\* connections is ever created.
PoolInitFailsWithoutTerminals ==
    /\ th[Main].arg \in {"FileNotFoundError", "JSONDecodeError", "KeyError"} =>
          th[Main].pc = "exception" /\ connection_pool = None
    /\ connection_pool # None => DOMAIN connections # {}

(***************************************************************************)
(* The health monitor after create_app, on a pool or on none               *)
(***************************************************************************)
\* create_app when init_connection_pool raised: the exception is logged,
\* _connection_pool stays None and the health monitor is started all the same
InitNoPool ==
    /\ MT5_AVAILABLE \in BOOLEAN
    /\ connection_pool = None
    /\ terminals = <<>>
    /\ connections = <<>>
    /\ symbol_to_connection = <<>>
    /\ conn = <<>>
    /\ term = <<>>
    /\ th = [t \in Threads |->
                IF t = Main THEN [IdleThread EXCEPT !.pc = "serving"]
                ELSE IF t = FirstMonitor THEN [IdleThread EXCEPT !.pc = "run"]
                ELSE IF t \in Monitors THEN [IdleThread EXCEPT !.pc = "unstarted"]
                ELSE IdleThread]
    /\ completed = <<>>
    /\ ops = [started |-> 0, ticks |-> 0, starts |-> 1, stops |-> 0]
    /\ health_monitor = FirstMonitor
    /\ mon = [m \in Monitors |-> NewMonitor]
    /\ IndicatorsIdle

InitTicks == InitMonitor \/ InitNoPool

SpecTicks == InitTicks /\ [][NextMonitor]_vars

\* get_health_summary has returned in the tick that monitor m is in
SummaryReturned(m) == th[m].summary.status # "none"

\* auto_reconnect_failed has been called in the tick that monitor m is in
AutoReconnectCalled(m) == th[m].pc = "auto_check" \/ th[m].scan # <<>>

\* the summary of the tick of m reported fewer connected terminals than there are
ReportedDisconnected(m) ==
    th[m].summary.connected_terminals < th[m].summary.total_terminals

\* auto_reconnect_failed comes after the summary, and only when it reported
\* disconnected terminals; by the wait it has been called if it did
ReconnectFollowsSummary(m) ==
    th[m].op = "tick" =>
        /\ AutoReconnectCalled(m) => SummaryReturned(m) /\ ReportedDisconnected(m)
        /\ th[m].pc = "wait" /\ ReportedDisconnected(m) => AutoReconnectCalled(m)

\* a tick starts at the head of the loop and nowhere else, ends in the wait,
\* and the head of the loop is reached from the wait (or from the start of run)
TickStep(m) ==
    /\ th'[m].op = "tick" /\ th[m].op # "tick" => th[m].pc = "loop"
    /\ th[m].op = "tick" /\ th'[m].op # "tick" =>
          th[m].pc = "wait" /\ th'[m].pc = "loop"
    /\ th'[m].pc = "loop" /\ th[m].pc # "loop" => th[m].pc \in {"run", "wait"}

TickStateAsClaimed ==
    \A m \in Monitors :
        /\ ReconnectFollowsSummary(m)
        /\ th[m].op = "tick" /\ th[m].pc = "wait" => SummaryReturned(m)

TickStateOnPool ==
    \A m \in Monitors :
        /\ ReconnectFollowsSummary(m)
        /\ th[m].op = "tick" /\ th[m].pc = "wait" /\ connection_pool # None =>
              SummaryReturned(m)
        /\ th[m].op = "tick" /\ connection_pool = None =>
              th[m].pc = "wait" /\ ~SummaryReturned(m) /\ ~AutoReconnectCalled(m)

\* C30: in every tick get_health_summary is called first and
\* auto_reconnect_failed is called in that tick if and only if the summary
\* reported connected_terminals < total_terminals; the monitor then waits
\* before its next tick, so that the ticks of one monitor never overlap.
TickChecksThenReconnects ==
    []TickStateAsClaimed /\ [][\A m \in Monitors : TickStep(m)]_vars

\* C30, amended: the same in every tick that finds the pool initialised; a
\* tick that finds no pool calls neither and goes straight to the wait.
TickOnPoolChecksThenReconnects ==
    []TickStateOnPool /\ [][\A m \in Monitors : TickStep(m)]_vars

TickOnPoolChecksThenReconnects_witness ==
    \E m \in Monitors :
        /\ th[m].op = "tick"
        /\ th[m].pc = "wait"
        /\ connection_pool # None
        /\ ReportedDisconnected(m)
        /\ Len(th[m].scan) = Cardinality(DOMAIN connections)

(***************************************************************************)
(* _calculate_horizontal_lines on points that form up to four clusters     *)
(***************************************************************************)
\* prices that are 1.5 % apart, so that at 0.5 % each is a level of its own
ClusterPrices == {1942, 1971, 2000, 2029}

\* fractal points that are all peaks or all bottoms
ClusterInputs ==
    UNION {{Fractals(l) : l \in ListsUpTo([value : ClusterPrices, is_peak : {side}],
                                          MaxPoints)} : side \in BOOLEAN}

InitClusters ==
    /\ NoService
    /\ rates = NoRates
    /\ fractals \in ClusterInputs
    /\ call = NoCall

NextClusters == calculate_horizontal_lines_call

SpecClusters == InitClusters /\ [][NextClusters]_vars

\* touchCount*25 + max(0, 100 - ageHours) in 1/3600, ageHours =
\* (endTime - latestMemberTime)/3600, of cluster c of the sorted points sp
ClaimedScore(sp, c) ==
    LET latest == MaxOf({sp[j].time : j \in c.members})
        age == c.line[2].time - latest
    IN  Cardinality(c.members) * 25 * 3600
            + (IF 100 * 3600 - age > 0 THEN 100 * 3600 - age ELSE 0)

\* the line of cluster c: from the earliest member to end_time, at the mean
ClaimedLine(sp, c, end_time) ==
    LET total == SumValues(sp, c.members)
        n == Cardinality(c.members)
        earliest == MinOf({sp[j].time : j \in c.members})
    IN  /\ Len(c.line) = 2
        /\ c.line[1].time = earliest
        /\ c.line[2].time = end_time
        /\ c.line[1].value = c.line[2].value
        /\ c.line[1].value.num * n = total * c.line[1].value.den

\* C31: for each side _calculate_horizontal_lines returns at most 3 lines,
\* those of the highest-scoring clusters of the side in descending order of
\* touchCount*25 + max(0, 100 - ageHours); each line runs from the earliest
\* member time to the end time at the mean member price.
TopThreeClusters ==
    call.fn = "calculate_horizontal_lines" =>
        \A side \in {"peaks", "bottoms"} :
            LET cs == call.clusters[side]
                sp == call.points[side]
                returned == IF side = "peaks"
                            THEN <<call.result.peak_1, call.result.peak_2,
                                   call.result.peak_3>>
                            ELSE <<call.result.bottom_1, call.result.bottom_2,
                                   call.result.bottom_3>>
                all_times == {call.points.peaks[k].time : k \in 1..Len(call.points.peaks)}
                             \cup {call.points.bottoms[k].time :
                                      k \in 1..Len(call.points.bottoms)}
                end_time == IF call.args.latest_time # 0 THEN call.args.latest_time
                            ELSE MaxOf(all_times) + 3600
            IN  /\ \A k \in 1..3 :
                      IF k <= Len(cs)
                      THEN returned[k] = cs[k].line /\ ClaimedLine(sp, cs[k], end_time)
                      ELSE returned[k] = <<>>
                /\ \A a, b \in 1..Len(cs) :
                      a < b => ClaimedScore(sp, cs[a]) >= ClaimedScore(sp, cs[b])
                /\ \A a \in 1..Len(cs) : cs[a].score = ClaimedScore(sp, cs[a])

TopThreeClusters_witness ==
    /\ call.fn = "calculate_horizontal_lines"
    /\ Len(call.clusters.peaks) = 4
    /\ Len(call.result.peak_3) = 2
    /\ call.result.peak_3 = call.clusters.peaks[3].line

(***************************************************************************)
(* _calculate_diagonal_lines on the fractals of bars that can be a peak    *)
(* and a bottom at once                                                    *)
(***************************************************************************)
\* what _calculate_fractals found at a bar: a peak at its high, a bottom at
\* its low, or both; 0 stands for neither
BarMarks ==
    {[peak |-> v, bottom |-> 0] : v \in PointPrices}
    \cup {[peak |-> 0, bottom |-> v] : v \in PointPrices}
    \cup {[peak |-> 2029, bottom |-> 1971], [peak |-> 2000, bottom |-> 2000]}

\* the dict of peaks and bottoms for the marks l of consecutive bars
MarkedFractals(l) ==
    LET pk == [k \in 1..Len(l) |->
                  [time |-> BarTime(k), value |-> l[k].peak, bar_index |-> k]]
        bt == [k \in 1..Len(l) |->
                  [time |-> BarTime(k), value |-> l[k].bottom, bar_index |-> k]]
        marked(p) == p.value # 0
    IN  [peaks |-> SelectSeq(pk, marked), bottoms |-> SelectSeq(bt, marked)]

MarkedInputs == {MarkedFractals(l) : l \in ListsUpTo(BarMarks, MaxPoints - 1)}

InitDiagonal ==
    /\ NoService
    /\ rates = NoRates
    /\ fractals \in MarkedInputs
    /\ call = NoCall

NextDiagonal == calculate_diagonal_lines_call

SpecDiagonal == InitDiagonal /\ [][NextDiagonal]_vars

\* the pairs that the loops of the call accepted
AcceptedPairs ==
    PairLoop(RecentFractals(fractals), call.args.tolerance_percent,
             <<call.args.min_angle, call.args.max_angle>>, call.args.min_touches,
             1, 2, <<>>)

\* C32: every accepted pair has p2.time > p1.time and is ascending exactly
\* when p2.value > p1.value, otherwise descending; with min_angle > 0 every
\* returned ascending line ends strictly higher than it starts, every
\* returned descending line strictly lower, and no line is in both.
DiagonalDirection ==
    call.fn = "calculate_diagonal_lines" =>
        LET asc == {call.result.ascending_1, call.result.ascending_2,
                    call.result.ascending_3} \ {<<>>}
            desc == {call.result.descending_1, call.result.descending_2,
                     call.result.descending_3} \ {<<>>}
        IN  /\ \A k \in 1..Len(AcceptedPairs) :
                  LET l == AcceptedPairs[k] IN
                  /\ l.line[2].time > l.line[1].time
                  /\ l.ascending <=> l.line[2].value > l.line[1].value
            /\ \A l \in asc : l[2].time > l[1].time /\ l[2].value > l[1].value
            /\ \A l \in desc : l[2].time > l[1].time /\ l[2].value < l[1].value
            /\ asc \cap desc = {}

DiagonalDirection_witness ==
    /\ call.fn = "calculate_diagonal_lines"
    /\ Len(call.result.ascending_1) = 2
    /\ Len(call.result.descending_1) = 2
    /\ \E a, b \in 1..Len(RecentFractals(fractals)) :
          /\ a < b
          /\ RecentFractals(fractals)[a].time = RecentFractals(fractals)[b].time
          /\ RecentFractals(fractals)[a].value # RecentFractals(fractals)[b].value

\* touchCount*25 + min(lineLengthHours, 100)*0.1 + 50 if the pair is among
\* the 5 most recent of the n points, in 1/36000
ClaimedPairScore(l, n) ==
    l.touches * 25 * 36000
        + Min(l.line[2].time - l.line[1].time, 100 * 3600)
        + (IF l.pair[1] > n - 5 /\ l.pair[2] > n - 5 THEN 50 * 36000 ELSE 0)

\* the accepted pairs of one direction, in the order the loops find them
PairsOf(ascending) ==
    LET this_way(l) == l.ascending = ascending
    IN  SelectSeq(AcceptedPairs, this_way)

\* returned holds the lines of min(3, Len(acc)) different pairs of acc, in
\* descending order of claimed score, and no other pair of acc scores higher
\* than the last of them
AreTopThree(returned, acc, n) ==
    LET I == 1..Len(acc)
        S(x) == ClaimedPairScore(acc[x], n)
        m == Cardinality({k \in 1..3 : returned[k] # <<>>})
    IN  /\ m = Min(3, Len(acc))
        /\ \A k \in 1..3 : returned[k] # <<>> <=> k <= m
        /\ m >= 1 =>
              \E a \in I :
                  /\ acc[a].line = returned[1]
                  /\ IF m = 1 THEN \A x \in I \ {a} : S(x) <= S(a)
                     ELSE \E b \in I \ {a} :
                         /\ acc[b].line = returned[2]
                         /\ S(a) >= S(b)
                         /\ IF m = 2 THEN \A x \in I \ {a, b} : S(x) <= S(b)
                            ELSE \E c \in I \ {a, b} :
                                /\ acc[c].line = returned[3]
                                /\ S(b) >= S(c)
                                /\ \A x \in I \ {a, b, c} : S(x) <= S(c)

\* C33: of the pairs of the 50 most recent fractal points that pass the
\* angle and touch filters, _calculate_diagonal_lines returns per direction
\* the up to 3 highest-scoring ones in descending order of touchCount*25 +
\* min(lineLengthHours, 100)*0.1 + (50 if the pair is among the 5 most
\* recent points, else 0).
TopThreePairs ==
    call.fn = "calculate_diagonal_lines" =>
        LET n == Len(RecentFractals(fractals)) IN
        /\ AreTopThree(<<call.result.ascending_1, call.result.ascending_2,
                         call.result.ascending_3>>, PairsOf(TRUE), n)
        /\ AreTopThree(<<call.result.descending_1, call.result.descending_2,
                         call.result.descending_3>>, PairsOf(FALSE), n)

\* the tick that monitor m is in has called reconnect() on connection c
ReconnectedInTick(m, c) ==
    \E k \in 1..Len(th[m].scan) :
        th[m].scan[k].terminal = c /\ ~th[m].scan[k].connected

InitService ==
    \/ InitNoPool
    \/ InitMonitor /\ terminals = <<TestConfig[1]>>

NextService ==
    \/ \E t \in {Main} \cup Monitors : ConnectionStep(t)
    \/ \E m \in Monitors : MonitorStep(m)
    \/ join
    \/ cleanup
    \/ shutdown_connection_pool
    \/ disconnect_all_next

SpecService == InitService /\ [][NextService]_vars

\* the scheduler keeps running monitor threads that can run, and terminal
\* calls return
SpecServiceFair ==
    SpecService /\ \A m \in Monitors : WF_vars(MonitorStep(m) \/ ConnectionStep(m))

\* the tick that monitor m is in found no pool: get_connection_pool() raised
FailedTick(m) == th[m].op = "tick" /\ th[m].pc = "wait" /\ ~SummaryReturned(m)

\* run() returns from the head of the loop with the stop event set, and no
\* exception leaves the thread
EndsAtStop(m) ==
    /\ th'[m].pc = "dead" /\ th[m].pc # "dead" =>
          th[m].pc = "loop" /\ mon[m].stop_event
    /\ th'[m].pc # "exception"

\* C35: a running monitor thread terminates only after stop has been
\* requested; a tick that fails (the pool is not initialised) does not end
\* the loop: the thread comes back to the head of the loop, and there a later
\* tick takes place unless stop has been requested.
MonitorEndsOnlyOnStop ==
    /\ [][\A m \in Monitors : EndsAtStop(m)]_vars
    /\ \A m \in Monitors :
          /\ FailedTick(m) ~> th[m].pc = "loop"
          /\ (th[m].pc = "loop" /\ connection_pool = None)
                ~> (th[m].op = "tick" \/ mon[m].stop_event)

MonitorEndsOnlyOnStop_witness ==
    \E m \in Monitors :
        /\ th[m].pc = "dead" /\ mon[m].stop_event /\ mon[m].running = FALSE
        /\ connection_pool = None
        /\ terminals = <<>>

\* cleanup has returned: stop_health_monitor and shutdown_connection_pool are
\* both over
ShutdownCompleted == th[Main].pc = "exited"

\* thread t is inside connect() or reconnect() of a connection
Connecting(t) ==
    th[t].pc \in {"connect", "connect_locked", "reconnect_read", "reconnect_write"}

\* C38: after service shutdown (stop_health_monitor followed by
\* shutdown_connection_pool) has completed, no connection is Connected and no
\* connect or reconnect is performed on any connection.
ShutdownIsFinal ==
    ShutdownCompleted =>
        /\ \A c \in DOMAIN conn : ~conn[c].connected
        /\ \A t \in Threads : ~Connecting(t)

\* the pool of two terminals in service: connect_all has run on both, the
\* health monitor has been started
InitLocks ==
    /\ MT5_AVAILABLE = TRUE
    /\ InitWith(TestConfig, "serving", {101})

\* one request worker beside the monitor threads
NextLocks ==
    \E t \in Workers :
        \/ ConnectionStep(t)
        \/ get_indicators_start(t)
        \/ get_connection_by_symbol_check(t)
        \/ get_indicators_check(t)
        \/ fetch_enter(t)
        \/ fetch_call(t)
        \/ fetch_compute(t)
        \/ get_health_summary_start(t)
        \/ finish(t)

SpecLocks == InitLocks /\ [][NextLocks]_vars

\* inside the with-block of a connection's lock
LockedPcs == {"connect_locked", "disconnect_locked", "check_locked", "fetch_locked",
              "fetch_compute"}

\* about to enter a with-block
EnteringPcs == {"connect", "disconnect", "check_connection", "fetch"}

\* the connections whose lock thread t holds
LocksHeldBy(t) == {c \in DOMAIN conn : conn[c].lock = t}

BeforeTerminalCall(r) ==
    r.op = "get_indicators" /\ r.pc \in {"fetch", "fetch_locked"}

\* worker t holds a connection that is Connected, its terminal logged in
HasConnected(t) ==
    /\ BeforeTerminalCall(th[t])
    /\ conn[th[t].cur].connected
    /\ term[th[t].cur] = "logged_in"

\* C37: once a request worker has obtained a Connected connection from
\* get_connection_by_symbol, the connection's terminal remains connected until
\* that worker's fetch has made its terminal call: no step of another thread
\* disconnects it in between.
ConnectedUntilFetched ==
    [][\A t \in Workers :
          HasConnected(t) /\ BeforeTerminalCall(th'[t]) =>
              conn'[th[t].cur].connected /\ term'[th[t].cur] = "logged_in"]_vars

\* any two distinct points of the list are more than sb bars apart
MoreThanApart(points, sb) ==
    \A k, l \in 1..Len(points) :
        k # l => Abs(points[k].bar_index - points[l].bar_index) > sb

\* the bar before point p, when there is one, has another high (low): p opens
\* its run of equal bars
FirstOfRun(p, values) ==
    p.bar_index >= 1 => values[p.bar_index] # values[p.bar_index + 1]

\* C39: for every bar series, any two distinct peaks that _calculate_fractals
\* reports are more than side_bars bars apart, and likewise any two distinct
\* bottoms; of a run of adjacent bars with equal highs (lows) at most the
\* first is a peak (bottom).
FractalsAreSpread ==
    (call.fn = "calculate_fractals" /\ ~rates.is_none) =>
        LET sb == call.args.side_bars
            f == call.result
            highs == [i \in 1..Len(rates.bars) |-> rates.bars[i].high]
            lows == [i \in 1..Len(rates.bars) |-> rates.bars[i].low]
        IN  /\ MoreThanApart(f.peaks, sb)
            /\ MoreThanApart(f.bottoms, sb)
            /\ \A k \in 1..Len(f.peaks) : FirstOfRun(f.peaks[k], highs)
            /\ \A k \in 1..Len(f.bottoms) : FirstOfRun(f.bottoms[k], lows)

\* two peaks side_bars + 1 bars apart, the first opening a run of two equal
\* highs whose second bar is a centre as well
FractalsAreSpread_witness ==
    /\ call.fn = "calculate_fractals" /\ ~rates.is_none
    /\ Len(call.result.peaks) = 2
    /\ call.result.peaks[2].bar_index - call.result.peaks[1].bar_index
          = call.args.side_bars + 1
    /\ LET i == call.result.peaks[1].bar_index IN
          /\ rates.bars[i + 1].high = rates.bars[i + 2].high
          /\ i + 1 < Len(rates.bars) - call.args.side_bars
    /\ Len(call.result.bottoms) >= 1

(***************************************************************************)
(* The fields of a connection, assignment by assignment.  connect(),        *)
(* check_connection() and disconnect() write connected, error_message and   *)
(* last_check one statement at a time inside the with-block; get_status()   *)
(* reads them without the lock, so it can run between two assignments.      *)
(***************************************************************************)
LockedCalls == {"connect", "check_connection", "disconnect"}

\* what the terminal can do in the call, given its session
CallOutcomes(fn, s) ==
    CASE fn = "connect" -> ConnectOutcomes
      [] fn = "check_connection" -> CheckOutcomes(s)
      [] OTHER -> {"ok", "shutdown_raised"}

\* the fields of the connection when the call returns
FieldsAfter(fn, cn, o) ==
    CASE fn = "connect" -> connect_fields(cn, o)
      [] fn = "check_connection" -> check_fields(cn, o)
      [] OTHER -> disconnect_fields(cn, o)

\* the terminal session when the call returns
SessionAfter(fn, s, o) ==
    CASE fn = "connect" -> connect_session(s, o)
      [] fn = "check_connection" -> s
      [] OTHER -> disconnect_session(s, o)

\* the assignments of the path taken, in the order of the source
WriteOrder(fn, o) ==
    CASE fn = "connect" /\ o = "ok" -> <<"connected", "error_message", "last_check">>
      [] fn = "connect" /\ o \in {"initialize_failed", "login_failed"} ->
           <<"error_message", "connected", "last_check">>
      [] fn = "connect" -> <<"error_message", "last_error", "connected", "last_check">>
      [] fn = "check_connection" /\ o = "ok" -> <<"connected", "error_message", "last_check">>
      [] fn = "check_connection" /\ o = "none" -> <<"connected", "error_message">>
      [] fn = "check_connection" ->
           <<"connected", "error_message", "last_error", "last_check">>
      [] fn = "disconnect" /\ o = "ok" -> <<"connected">>
      [] OTHER -> <<>>

\* self.<f> = ...: field f of cn takes the value it has in target
AssignField(cn, f, target) ==
    CASE f = "connected" -> [cn EXCEPT !.connected = target.connected]
      [] f = "error_message" -> [cn EXCEPT !.error_message = target.error_message]
      [] f = "last_error" -> [cn EXCEPT !.last_error = target.last_error]
      [] OTHER -> [cn EXCEPT !.last_check = target.last_check]

\* with self.lock: the call into the terminal has returned with outcome o
locked_call(t) ==
    /\ th[t].pc = "idle"
    /\ MT5_AVAILABLE
    /\ \E c \in DOMAIN conn : \E fn \in LockedCalls :
         /\ LockFree(c)
         /\ \E o \in CallOutcomes(fn, term[c]) :
              /\ conn' = Acquire(t, c)
              /\ term' = [term EXCEPT ![c] = SessionAfter(fn, @, o)]
              /\ th' = [th EXCEPT ![t] =
                       [IdleThread EXCEPT !.op = fn, !.pc = "assign", !.cur = c,
                                          !.arg = o, !.todo = WriteOrder(fn, o)]]
    /\ UNCHANGED <<pool, indicators, completed, ops, health_monitor, mon>>

\* the next assignment of the path; after the last one the with-block is left
assign_next(t) ==
    LET c == th[t].cur IN
    /\ th[t].pc = "assign"
    /\ IF th[t].todo = <<>>
       THEN /\ conn' = [conn EXCEPT ![c].lock = NoThread]
            /\ th' = [th EXCEPT ![t] = IdleThread]
       ELSE /\ conn' = [conn EXCEPT ![c] =
                       AssignField(@, Head(th[t].todo), FieldsAfter(th[t].op, @, th[t].arg))]
            /\ th' = [th EXCEPT ![t].todo = Tail(@)]
    /\ UNCHANGED <<pool, indicators, term, completed, ops, health_monitor, mon>>

\* the dict get_status() returns; error is None when the key is absent
StatusDict(cn) ==
    [connected |-> cn.connected, terminal_id |-> cn.id, last_check |-> cn.last_check,
     error |-> cn.error_message]

\* MT5Connection.get_status, called without the lock
get_status_unlocked(t) ==
    /\ th[t].pc = "idle"
    /\ \E c \in DOMAIN conn :
         th' = [th EXCEPT ![t] =
               [IdleThread EXCEPT !.op = "get_status", !.cur = c,
                                  !.stat = <<StatusDict(conn[c])>>]]
    /\ UNCHANGED <<pool, indicators, conn, term, completed, ops, health_monitor, mon>>

InitFields ==
    /\ MT5_AVAILABLE = TRUE
    /\ InitWith(<<TestConfig[1]>>, "serving", {})

NextFields == \E t \in Workers : locked_call(t) \/ assign_next(t) \/ get_status_unlocked(t)

SpecFields == InitFields /\ [][NextFields]_vars

\* C40: in every reachable state of a connection, connected = true implies
\* that no error message is recorded, so get_status() reports an 'error' only
\* for a connection that is not Connected.
ConnectedHasNoError ==
    /\ \A c \in DOMAIN conn : conn[c].connected => conn[c].error_message = None
    /\ \A t \in Workers :
          th[t].op = "get_status" =>
              \A k \in 1..Len(th[t].stat) :
                  th[t].stat[k].error # None => ~th[t].stat[k].connected

====
